---- MODULE Spec2Model ----
(***************************************************************************)
(* A model of the shadow repository: the retry/backoff loop and the        *)
(* response extraction (internal/ai/advanced_client.go), the usage tracker *)
(* (internal/ai/usage_tracker.go), the multi-agent analysis                *)
(* (internal/ai/agent_manager.go), the interactive permission manager      *)
(* (internal/scanner/permission_manager.go) and the scan engine            *)
(* (internal/scanner/scanner.go).                                          *)
(*                                                                         *)
(* Go strings are TLA+ strings; the string functions the code calls        *)
(* (strings.ToLower, strings.Contains, strings.TrimSpace, fmt.Sprintf) are *)
(* computed character by character.  A Go error is a record                *)
(*   [id, msg, unwrap]                                                     *)
(* id is the identity errors.Is compares, msg is Error(), and unwrap is    *)
(* <<>> or <<the wrapped error>>.                                          *)
(***************************************************************************)
EXTENDS Integers, Sequences, FiniteSets, TLC

VARIABLES
    \* ---- the classifier applied to one error (isRetryableError)
    cErr,          \* the error handed to isRetryableError
    cDone,         \* whether the classifier has returned
    cRes,          \* its return value
    \* ---- one call of AnalyzeScanWithRetry / QueryWithRetry
    op,            \* "none", "Analyze" or "Query": the public function running
    pc,            \* "idle", "loop", "attempt", "sleep", "done"
    attempt,       \* the loop variable of retryWithBackoff
    lastErr,       \* the local lastErr
    ctxErr,        \* ctx.Err(): "none", "canceled" or "deadline exceeded"
    now,           \* the clock, in seconds since the call started
    deadline,      \* the deadline context.WithTimeout set
    sleepUntil,    \* when the timer of sleepWithContext fires
    ret,           \* what the call returned: [result, err]
    \* ---- observers of the retry loop (no code reads them)
    calls,         \* how many times fn was invoked
    fails,         \* how many invocations returned an error the specification calls retryable
    fnOut,         \* what the external call of the most recent invocation returned
    fnErr,         \* the error the most recent fn invocation returned
    naps,          \* the backoff sleeps entered, in order: [from, delay]
    woke,          \* the clock at each return of a sleep by its timer
    doneAtCheck,   \* ctx.Err() as the select at the loop top saw it last
    ctxDonePc,     \* pc when ctx became done ("none" while it is not)
    ctxDoneAt,     \* the clock when ctx became done (-1 while it is not)
    \* ---- the PermissionManager
    sudoAvailable, \* the field sudoAvailable
    sudoTested,    \* the field sudoTested
    userApproved,  \* the field userApproved: a function from keys to BOOLEAN
    envSudo,       \* the environment: whether sudo exists and `sudo -n true` succeeds
    \* ---- observers of the PermissionManager
    pLast,         \* the last call: its arguments, results and side effects
    pRecorded,     \* (tool, command) -> the decision the prompt recorded for it
    pAlways,       \* the tools the user answered "always" for
    pProbes,       \* how many times the sudo probe ran
    \* ---- the response extraction (parseAnalysisResponse)
    eText,         \* the response text handed to the extractors
    eDone,         \* whether the extractors have run
    eOut,          \* what they returned (or that one of them panicked)
    \* ---- the UsageTracker
    usages,        \* the field usages: the records in insertion order
    \* ---- observers of the UsageTracker
    uSummary,      \* what the last GetSummary returned
    uPrev,         \* what the GetSummary before it returned, no record added between them
    uTaken,        \* whether a summary was taken since the last RecordUsage
    \* ---- one call of AgentManager.AnalyzeScanWithAgents
    aScan,         \* the result argument: the scan to analyse
    aProfile,      \* the profile argument
    aHasProgress,  \* whether the progress callback is non-nil
    aStage,        \* "idle", "quick", "standard", "recon", "vuln", "exploit", "done"
    aRunning,      \* whether agent.client.Run of the current stage is in flight
    aTicks,        \* how often the ticker of the progress goroutine fired during this Run
    aRecon,        \* the local reconResult
    aVuln,         \* the local vulnResult
    aRet,          \* what the call returned: [result, err]
    aLinger,       \* the progress goroutines whose done channel is closed and
                   \* that have not returned yet: [stage, ticks]
    \* ---- observers of the AgentManager
    aLog,          \* the agent calls and their returns, in order
    aMsgs,         \* the messages passed to the progress callback
    aParsed,       \* the texts handed to parseAnalysisResponse
    aLate,         \* the progress calls made after AnalyzeWithAgent returned
    \* ---- goroutines calling RecordUsage and GetSummary on one UsageTracker
    mu,            \* the field mu: [w, r], the writer and the readers holding it
    tPc,           \* goroutine -> where it is in its call ("idle" between calls)
    tArg,          \* goroutine -> the stats argument of its RecordUsage
    tLen,          \* goroutine -> len(t.usages) as its append read it
    \* ---- observers of these goroutines
    tBegan,        \* goroutine -> the insertions returned when its GetSummary began
    tOut,          \* what the last loop of a GetSummary computed and saw
    tReturned,     \* the RecordUsage calls that returned: [idx, stats]
    \* ---- one Scanner
    sConfig,       \* the field config: [Target, Profile]
    sModules,      \* the field modules
    sPc,           \* "new", "loop" (inside Run) or "returned"
    sNext,         \* the index of the range loop over s.modules
    sResult,       \* the ScanResult of the current Run
    \* ---- observers of the Scanner
    sRuns,         \* how many times Run was called
    sRan           \* the names of the modules run by the current Run, in order

classVars == <<cErr, cDone, cRes>>
retryVars == <<op, pc, attempt, lastErr, ctxErr, now, deadline, sleepUntil, ret>>
retryObs  == <<calls, fails, fnOut, fnErr, naps, woke, doneAtCheck, ctxDonePc, ctxDoneAt>>
permVars  == <<sudoAvailable, sudoTested, userApproved, envSudo>>
permObs   == <<pLast, pRecorded, pAlways, pProbes>>
extractVars == <<eText, eDone, eOut>>
usageVars == <<usages>>
usageObs == <<uSummary, uPrev, uTaken>>
agentVars == <<aScan, aProfile, aHasProgress, aStage, aRunning, aTicks, aRecon, aVuln, aRet,
               aLinger>>
agentObs == <<aLog, aMsgs, aParsed, aLate>>
lockVars == <<mu, tPc, tArg, tLen>>
lockObs == <<tBegan, tOut, tReturned>>
scanVars == <<sConfig, sModules, sPc, sNext, sResult>>
scanObs == <<sRuns, sRan>>
vars == <<classVars, retryVars, retryObs, permVars, permObs, extractVars,
          usageVars, usageObs, agentVars, agentObs, lockVars, lockObs, scanVars, scanObs>>

\* what the calls of one component leave alone: the other components
sideVars == <<lockVars, lockObs, scanVars, scanObs>>
aiVars == <<usageVars, usageObs, agentVars, agentObs, sideVars>>
nonClassVars == <<retryVars, retryObs, permVars, permObs, extractVars, aiVars>>
nonRetryVars == <<classVars, permVars, permObs, extractVars, aiVars>>
nonPermVars == <<classVars, retryVars, retryObs, extractVars, aiVars>>
nonExtractVars == <<classVars, retryVars, retryObs, permVars, permObs, aiVars>>
nonUsageVars == <<classVars, retryVars, retryObs, permVars, permObs, extractVars,
                  agentVars, agentObs, sideVars>>
nonAgentVars == <<classVars, retryVars, retryObs, permVars, permObs, extractVars, usageObs,
                  sideVars>>
nonLockVars == <<classVars, retryVars, retryObs, permVars, permObs, extractVars, usageObs,
                 agentVars, agentObs, scanVars, scanObs>>
nonScanVars == <<classVars, retryVars, retryObs, permVars, permObs, extractVars,
                 usageVars, usageObs, agentVars, agentObs, lockVars, lockObs>>

(***************************************************************************)
(* Strings                                                                 *)
(***************************************************************************)
Uppers == "ABCDEFGHIJKLMNOPQRSTUVWXYZ"
Lowers == "abcdefghijklmnopqrstuvwxyz"

CharAt(s, i) == SubSeq(s, i, i)

UpperSet == {CharAt(Uppers, i) : i \in 1..Len(Uppers)}
LowerSet == {CharAt(Lowers, i) : i \in 1..Len(Lowers)}
LowerMap == [c \in UpperSet |-> CharAt(Lowers, CHOOSE i \in 1..Len(Uppers) : CharAt(Uppers, i) = c)]
UpperMap == [c \in LowerSet |-> CharAt(Uppers, CHOOSE i \in 1..Len(Lowers) : CharAt(Lowers, i) = c)]

\* unicode.ToLower on one ASCII character
LowerChar(c) == IF c \in UpperSet THEN LowerMap[c] ELSE c

RECURSIVE ToLowerFrom(_, _)
ToLowerFrom(s, i) ==
    IF i > Len(s) THEN "" ELSE LowerChar(CharAt(s, i)) \o ToLowerFrom(s, i + 1)

\* strings.ToLower
ToLower(s) == ToLowerFrom(s, 1)

\* strings.Contains
Contains(s, sub) ==
    \E i \in 1..(Len(s) - Len(sub) + 1) : SubSeq(s, i, i + Len(sub) - 1) = sub

\* strings.HasPrefix
HasPrefix(s, p) == Len(p) <= Len(s) /\ SubSeq(s, 1, Len(p)) = p

\* the white space strings.TrimSpace removes (ASCII)
WhiteSpace == {" ", "\t", "\n", "\r", "\f"}

\* strings.TrimSpace
TrimSpace(s) ==
    LET keep == {i \in 1..Len(s) : CharAt(s, i) \notin WhiteSpace}
    IN  IF keep = {} THEN ""
        ELSE SubSeq(s, CHOOSE i \in keep : \A j \in keep : i <= j,
                       CHOOSE i \in keep : \A j \in keep : i >= j)

(***************************************************************************)
(* Errors                                                                  *)
(***************************************************************************)
\* the nil error
NoErr == [id |-> "nil", msg |-> "", unwrap |-> <<>>]

\* errors.New of this package: a value with its own identity
errEmptyResponse == [id |-> "errEmptyResponse", msg |-> "empty AI response", unwrap |-> <<>>]
errRateLimitExceeded ==
    [id |-> "errRateLimitExceeded", msg |-> "rate limit exceeded", unwrap |-> <<>>]

\* an error made outside this package (the one-shot client, bufio, context)
ExtErr(m) == [id |-> "ext", msg |-> m, unwrap |-> <<>>]

\* fmt.Errorf(prefix + "%w", e)
Errorf(prefix, e) == [id |-> "wrap", msg |-> prefix \o e.msg, unwrap |-> <<e>>]

RECURSIVE Is(_, _)
\* errors.Is
Is(e, target) ==
    \/ e = target
    \/ e.unwrap # <<>> /\ Is(e.unwrap[1], target)

retryablePatterns ==
    <<"rate limit", "429", "timeout", "temporary", "connection", "deadline exceeded">>

isRetryableError_Always(err) == err # NoErr

isRetryableError_CaseSensitive(err) ==
    IF err = NoErr THEN FALSE
    ELSE IF Is(err, errEmptyResponse) THEN TRUE
    ELSE IF Is(err, errRateLimitExceeded) THEN TRUE
    ELSE \E k \in 1..Len(retryablePatterns) : Contains(err.msg, retryablePatterns[k])

isRetryableError(err) ==
    IF err = NoErr THEN FALSE
    ELSE IF Is(err, errEmptyResponse) THEN TRUE
    ELSE IF Is(err, errRateLimitExceeded) THEN TRUE
    ELSE LET message == ToLower(err.msg)
         IN  \E k \in 1..Len(retryablePatterns) : Contains(message, retryablePatterns[k])

(***************************************************************************)
(* What the specification calls a retryable error, written without the     *)
(* code's string functions                                                 *)
(***************************************************************************)
ClaimPatterns ==
    {"429", "rate limit", "timeout", "temporary", "connection", "deadline exceeded"}

UpperChar(c) == IF c \in LowerSet THEN UpperMap[c] ELSE c

\* pattern p stands at position i of m, whatever the case of m's letters
MatchesAt(m, i, p) ==
    \A j \in 1..Len(p) :
        CharAt(m, i + j - 1) \in {CharAt(p, j), UpperChar(CharAt(p, j))}

MentionsPattern(m) ==
    \E p \in ClaimPatterns : \E i \in 1..(Len(m) - Len(p) + 1) : MatchesAt(m, i, p)

RECURSIVE ChainIds(_)
\* the identities of an error and of everything it wraps
ChainIds(e) == {e.id} \cup (IF e.unwrap = <<>> THEN {} ELSE ChainIds(e.unwrap[1]))

\* retryable as the specification has it: a pattern in the message, in any
\* case, or the empty-response error
SpecRetryable(e) ==
    e # NoErr /\ (MentionsPattern(e.msg) \/ "errEmptyResponse" \in ChainIds(e))

(***************************************************************************)
(* The retry loop: AnalyzeScanWithRetry, QueryWithRetry, retryWithBackoff, *)
(* retryStringWithBackoff, sleepWithContext.  Time is in seconds.          *)
(***************************************************************************)
maxRetryAttempts == 3
baseRetryDelay == 15
defaultAnalysisTimeout == 600
defaultQueryTimeout == 300

\* context.Canceled and context.DeadlineExceeded, as ctx.Err() returns them
CtxError(e) ==
    IF e = "canceled" THEN [id |-> "context.Canceled", msg |-> "context canceled", unwrap |-> <<>>]
    ELSE [id |-> "context.DeadlineExceeded", msg |-> "context deadline exceeded", unwrap |-> <<>>]

\* the results: a nil *models.AIAnalysis, an AIAnalysis built from the
\* response text (every field of it is computed from that text), a string
NilAnalysis == [kind |-> "nil", text |-> ""]
AIAnalysis(text) == [kind |-> "analysis", text |-> text]
StringResult(text) == [kind |-> "string", text |-> text]

\* the zero result each loop returns beside an error: nil, ""
ZeroResult(o) == IF o = "Analyze" THEN NilAnalysis ELSE StringResult("")

NoOut == [text |-> "", err |-> NoErr]
NoRet == [result |-> NilAnalysis, err |-> NoErr]

analyzeScanOnce_NoEmptyCheck(out) ==
    IF out.err # NoErr
    THEN [result |-> NilAnalysis, err |-> Errorf("failed to run analysis: ", out.err)]
    ELSE [result |-> AIAnalysis(out.text), err |-> NoErr]

\* analyzeScanOnce, given what a.client.Run returned
analyzeScanOnce(out) ==
    IF out.err # NoErr
    THEN [result |-> NilAnalysis, err |-> Errorf("failed to run analysis: ", out.err)]
    ELSE IF TrimSpace(out.text) = ""
    THEN [result |-> NilAnalysis, err |-> errEmptyResponse]
    ELSE [result |-> AIAnalysis(out.text), err |-> NoErr]

\* the closure QueryWithRetry passes to retryStringWithBackoff
queryOnce(out) ==
    IF out.err # NoErr
    THEN [result |-> StringResult(""), err |-> out.err]
    ELSE IF TrimSpace(out.text) = ""
    THEN [result |-> StringResult(""), err |-> errEmptyResponse]
    ELSE [result |-> StringResult(out.text), err |-> NoErr]

\* fn(ctx) of the running loop
fn(o, out) == IF o = "Analyze" THEN analyzeScanOnce(out) ELSE queryOnce(out)

LoopContinues_OffByOne(a) == a <= maxRetryAttempts

\* the loop condition: attempt < maxRetryAttempts
LoopContinues(a) == a < maxRetryAttempts

\* the condition of the backoff: attempt+1 < maxRetryAttempts
BackoffDue(a) == a + 1 < maxRetryAttempts

BackoffDelay_Constant(a) == baseRetryDelay

\* delay := baseRetryDelay * time.Duration(attempt+1)
BackoffDelay(a) == baseRetryDelay * (a + 1)

retryBody_KeepsFirstErr(o, a, last, r) ==
    IF r.err = NoErr
    THEN [next |-> "return", ret |-> [result |-> r.result, err |-> NoErr], lastErr |-> last]
    ELSE IF ~isRetryableError(r.err)
    THEN [next |-> "return", ret |-> [result |-> ZeroResult(o), err |-> r.err], lastErr |-> last]
    ELSE LET l == IF last = NoErr THEN r.err ELSE last
         IN  IF BackoffDue(a)
             THEN [next |-> "sleep", ret |-> NoRet, lastErr |-> l]
             ELSE IF LoopContinues(a + 1)
             THEN [next |-> "loop", ret |-> NoRet, lastErr |-> l]
             ELSE [next |-> "return", lastErr |-> l,
                   ret |-> [result |-> ZeroResult(o),
                            err |-> Errorf("max retries exceeded: ", l)]]

\* the loop body after fn returned r in iteration a: return what fn returned,
\* return its fatal error, go to sleep, or leave the loop exhausted
retryBody(o, a, last, r) ==
    IF r.err = NoErr
    THEN [next |-> "return", ret |-> [result |-> r.result, err |-> NoErr], lastErr |-> last]
    ELSE IF ~isRetryableError(r.err)
    THEN [next |-> "return", ret |-> [result |-> ZeroResult(o), err |-> r.err], lastErr |-> last]
    ELSE IF BackoffDue(a)
    THEN [next |-> "sleep", ret |-> NoRet, lastErr |-> r.err]
    ELSE IF LoopContinues(a + 1)
    THEN [next |-> "loop", ret |-> NoRet, lastErr |-> r.err]
    ELSE [next |-> "return", lastErr |-> r.err,
          ret |-> [result |-> ZeroResult(o), err |-> Errorf("max retries exceeded: ", r.err)]]

RetryIdle ==
    /\ op = "none" /\ pc = "idle" /\ attempt = 0 /\ lastErr = NoErr
    /\ ctxErr = "none" /\ now = 0 /\ deadline = 0 /\ sleepUntil = 0
    /\ ret = NoRet
    /\ calls = 0 /\ fails = 0 /\ fnOut = NoOut /\ fnErr = NoErr
    /\ naps = <<>> /\ woke = <<>>
    /\ doneAtCheck = "none" /\ ctxDonePc = "none" /\ ctxDoneAt = -1

ClassIdle == cErr = NoErr /\ cDone = FALSE /\ cRes = FALSE

\* the extractors before they run
NoExtract == [ok |-> TRUE, Summary |-> "", RiskScore |-> 0,
              CriticalIssues |-> <<>>, Recommendations |-> <<>>]

ExtractIdle == eText = "" /\ eDone = FALSE /\ eOut = NoExtract

\* UsageSummary{ByAgent: make(map...), ByModel: make(map...)}
ZeroSummary ==
    [TotalInputTokens |-> 0, TotalOutputTokens |-> 0, TotalCost |-> 0,
     TotalDuration |-> 0, TotalOperations |-> 0, SuccessfulOperations |-> 0,
     ByAgent |-> <<>>, ByModel |-> <<>>]

\* no summary returned yet
NoSummary == [taken |-> FALSE, s |-> ZeroSummary]

\* NewUsageTracker, no call made yet
UsageIdle == usages = <<>> /\ uSummary = NoSummary /\ uPrev = NoSummary /\ uTaken = FALSE

\* no scan handed over yet
NoScan == [ID |-> "", Target |-> "", StartTime |-> "", Findings |-> <<>>]

\* the AgentManager before AnalyzeScanWithAgents is called
AgentIdle ==
    /\ aScan = NoScan
    /\ aProfile = "" /\ aHasProgress = FALSE /\ aStage = "idle" /\ aRunning = FALSE
    /\ aTicks = 0
    /\ aRecon = "" /\ aVuln = "" /\ aRet = NoRet
    /\ aLinger = {}
    /\ aLog = <<>> /\ aMsgs = <<>> /\ aParsed = <<>> /\ aLate = 0

\* the goroutines that call the tracker
Goroutines == {"g1", "g2", "g3"}

\* sync.RWMutex unlocked; no goroutine inside a call of the tracker
LockIdle ==
    /\ mu = [w |-> "", r |-> {}]
    /\ tPc = [g \in Goroutines |-> "idle"]
    /\ tArg = [g \in Goroutines |-> <<>>]
    /\ tLen = [g \in Goroutines |-> 0]
    /\ tBegan = [g \in Goroutines |-> {}]
    /\ tOut = [taken |-> FALSE, s |-> ZeroSummary, began |-> {}, torn |-> FALSE]
    /\ tReturned = {}

\* models.ScanResult before a Run made one
NoResult == [Target |-> "", Status |-> "", Profile |-> "", Findings |-> <<>>]

\* no Scanner constructed yet
ScanIdle ==
    /\ sConfig = [Target |-> "", Profile |-> ""]
    /\ sModules = <<>> /\ sPc = "none" /\ sNext = 0 /\ sResult = NoResult
    /\ sRuns = 0 /\ sRan = <<>>

\* the components of internal/ai around the retry loop, untouched
AiIdle == UsageIdle /\ AgentIdle /\ LockIdle /\ ScanIdle

(***************************************************************************)
(* The PermissionManager                                                   *)
(***************************************************************************)
\* the (tool, command) pairs RequestRootPermission is called with.  Tool and
\* command are free strings: a command may be "*", either may hold a ':'
RequestArgs ==
    {<<"nmap", "sudo nmap -sS">>, <<"nmap", "*">>,
     <<"nmap", "a:sudo nmap -sS">>, <<"nmap:a", "sudo nmap -sS">>}

\* the tool and the argument lists RunWithSudo and RunWithFallback are called with
RunTools == {"nmap"}
RootArgs == {<<"-sS">>}
FallbackArgs == {<<"-sT">>}

\* what reader.ReadString('\n') returns: a line with its newline, or what
\* was read before the end of the input together with io.EOF
Answers == {"yes", "Y", " Always ", "a", "no", "N", "", "maybe"}
StdinReads ==
    {[line |-> a \o "\n", err |-> NoErr] : a \in Answers}
        \cup {[line |-> a, err |-> ExtErr("EOF")] : a \in {"", "yes"}}

\* the read of a call that does not reach the prompt
NoRead == [line |-> "", err |-> NoErr]

\* the environment: sudo is not on the PATH, `sudo -n true` fails, or it succeeds
SudoEnvs == {"missing", "password", "ok"}

\* what exec's CombinedOutput returns as error: nil or an exit error
ExecErrs == {NoErr, ExtErr("exit status 1")}

\* the map write m[k] = v
Put(m, k, v) == [x \in DOMAIN m \cup {k} |-> IF x = k THEN v ELSE m[x]]

RECURSIVE Join(_, _)
\* strings.Join
Join(args, sep) ==
    IF args = <<>> THEN ""
    ELSE IF Len(args) = 1 THEN args[1]
    ELSE args[1] \o sep \o Join(Tail(args), sep)

\* cacheKey := fmt.Sprintf("%s:%s", tool, command)
CacheKey(tool, command) == tool \o ":" \o command

\* the key "always" records for the tool: tool+":*"
WildcardKey(tool) == tool \o ":*"

\* command := fmt.Sprintf("sudo %s %s", tool, strings.Join(args, " "))
SudoCommand(tool, args) == "sudo " \o tool \o " " \o Join(args, " ")

\* the PermissionManager's fields as one value
PM == [tested |-> sudoTested, avail |-> sudoAvailable, approved |-> userApproved]

\* CheckSudoAvailable without the sudoTested shortcut: every call probes
CheckSudo_NoCache(m, env) ==
    [result |-> (env = "ok"),
     pm |-> [m EXCEPT !.avail = (env = "ok"), !.tested = TRUE], probed |-> TRUE]

\* CheckSudoAvailable on manager m in environment env: the result, the
\* manager afterwards, and whether the probe ran
CheckSudo(m, env) ==
    IF m.tested
    THEN [result |-> m.avail, pm |-> m, probed |-> FALSE]
    ELSE IF env = "missing"
    THEN [result |-> FALSE, pm |-> [m EXCEPT !.avail = FALSE, !.tested = TRUE], probed |-> TRUE]
    ELSE [result |-> (env = "ok"),
          pm |-> [m EXCEPT !.avail = (env = "ok"), !.tested = TRUE], probed |-> TRUE]

\* RequestRootPermission whose default case approves instead of denying
Request_DefaultApproves(m, env, tool, command, rd) ==
    LET cacheKey == CacheKey(tool, command)
    IN  IF cacheKey \in DOMAIN m.approved
        THEN [approved |-> m.approved[cacheKey], err |-> NoErr, pm |-> m,
              prompted |-> FALSE, probed |-> FALSE]
        ELSE LET cs == CheckSudo(m, env)
             IN  IF ~cs.result
                 THEN [approved |-> FALSE, err |-> ExtErr("sudo not available"),
                       pm |-> cs.pm, prompted |-> FALSE, probed |-> cs.probed]
                 ELSE IF rd.err # NoErr
                 THEN [approved |-> FALSE, err |-> rd.err, pm |-> cs.pm,
                       prompted |-> TRUE, probed |-> cs.probed]
                 ELSE LET response == ToLower(TrimSpace(rd.line))
                          set(a) == [cs.pm EXCEPT !.approved = a]
                      IN  IF response \in {"always", "a"}
                          THEN [approved |-> TRUE, err |-> NoErr,
                                pm |-> set(Put(Put(cs.pm.approved, WildcardKey(tool), TRUE),
                                               cacheKey, TRUE)),
                                prompted |-> TRUE, probed |-> cs.probed]
                          ELSE IF response \in {"no", "n"}
                          THEN [approved |-> FALSE, err |-> NoErr,
                                pm |-> set(Put(cs.pm.approved, cacheKey, FALSE)),
                                prompted |-> TRUE, probed |-> cs.probed]
                          ELSE [approved |-> TRUE, err |-> NoErr,
                                pm |-> set(Put(cs.pm.approved, cacheKey, TRUE)),
                                prompted |-> TRUE, probed |-> cs.probed]

\* a failed read recorded as a denial
AfterReadError_RecordsDenial(m, cacheKey) ==
    [m EXCEPT !.approved = Put(m.approved, cacheKey, FALSE)]

\* the manager after reader.ReadString failed: the call returns at once
AfterReadError(m, cacheKey) == m

\* RequestRootPermission(tool, purpose, command) on manager m, the prompt
\* (when it is reached) reading rd: the results, the manager afterwards, and
\* whether a line was read and whether the probe ran
Request(m, env, tool, command, rd) ==
    LET cacheKey == CacheKey(tool, command)
    IN  IF cacheKey \in DOMAIN m.approved
        THEN [approved |-> m.approved[cacheKey], err |-> NoErr, pm |-> m,
              prompted |-> FALSE, probed |-> FALSE]
        ELSE LET cs == CheckSudo(m, env)
             IN  IF ~cs.result
                 THEN [approved |-> FALSE, err |-> ExtErr("sudo not available"),
                       pm |-> cs.pm, prompted |-> FALSE, probed |-> cs.probed]
                 ELSE IF rd.err # NoErr
                 THEN [approved |-> FALSE, err |-> rd.err,
                       pm |-> AfterReadError(cs.pm, cacheKey),
                       prompted |-> TRUE, probed |-> cs.probed]
                 ELSE LET response == ToLower(TrimSpace(rd.line))
                          set(a) == [cs.pm EXCEPT !.approved = a]
                      IN  IF response \in {"yes", "y"}
                          THEN [approved |-> TRUE, err |-> NoErr,
                                pm |-> set(Put(cs.pm.approved, cacheKey, TRUE)),
                                prompted |-> TRUE, probed |-> cs.probed]
                          ELSE IF response \in {"always", "a"}
                          THEN [approved |-> TRUE, err |-> NoErr,
                                pm |-> set(Put(Put(cs.pm.approved, WildcardKey(tool), TRUE),
                                               cacheKey, TRUE)),
                                prompted |-> TRUE, probed |-> cs.probed]
                          ELSE [approved |-> FALSE, err |-> NoErr,
                                pm |-> set(Put(cs.pm.approved, cacheKey, FALSE)),
                                prompted |-> TRUE, probed |-> cs.probed]

\* whether RequestRootPermission reaches reader.ReadString
ReachesPrompt(m, env, tool, command) ==
    CacheKey(tool, command) \notin DOMAIN m.approved /\ CheckSudo(m, env).result

\* what the call may read from the standard input
Reads(m, env, tool, command) ==
    IF ReachesPrompt(m, env, tool, command) THEN StdinReads ELSE {NoRead}

\* the user's answer as the prompt offers it, for the observers
AnsweredAlways(rd) == rd.err = NoErr /\ ToLower(TrimSpace(rd.line)) \in {"always", "a"}

NoCall ==
    [fn |-> "none", tool |-> "", command |-> "", requested |-> FALSE,
     approved |-> FALSE, err |-> NoErr, prompted |-> FALSE, probed |-> FALSE,
     alwaysBefore |-> FALSE, recordedBefore |-> "unasked",
     ran |-> <<>>, out |-> NoErr, privileged |-> FALSE,
     read |-> NoRead, mapBefore |-> <<>>,
     testedBefore |-> FALSE, availBefore |-> FALSE, envAt |-> "ok"]

\* NewPermissionManager, no call made yet
PermIdle ==
    /\ sudoAvailable = FALSE /\ sudoTested = FALSE
    /\ userApproved = <<>>
    /\ envSudo = "ok"
    /\ pLast = NoCall /\ pRecorded = <<>> /\ pAlways = {} /\ pProbes = 0

\* a decision as the observers name it
Decision(approved) == IF approved THEN "approved" ELSE "denied"

\* what a request for (tool, command) leaves in the observers
Observe(f, tool, command, rd, q, ran, out, privileged) ==
    /\ pLast' = [fn |-> f, tool |-> tool, command |-> command, requested |-> TRUE,
                 approved |-> q.approved, err |-> q.err,
                 prompted |-> q.prompted, probed |-> q.probed,
                 alwaysBefore |-> (tool \in pAlways),
                 recordedBefore |-> (IF <<tool, command>> \in DOMAIN pRecorded
                                     THEN pRecorded[<<tool, command>>] ELSE "unasked"),
                 ran |-> ran, out |-> out, privileged |-> privileged,
                 read |-> (IF q.prompted THEN rd ELSE NoRead),
                 mapBefore |-> userApproved,
                 testedBefore |-> sudoTested, availBefore |-> sudoAvailable,
                 envAt |-> envSudo]
    /\ pRecorded' = (IF q.prompted /\ q.err = NoErr
                     THEN Put(pRecorded, <<tool, command>>, Decision(q.approved))
                     ELSE pRecorded)
    /\ pAlways' = (IF q.prompted /\ AnsweredAlways(rd) THEN pAlways \cup {tool} ELSE pAlways)

\* the manager's fields after a call
Becomes(m) ==
    /\ sudoTested' = m.tested
    /\ sudoAvailable' = m.avail
    /\ userApproved' = m.approved

\* a call of CheckSudoAvailable
CheckSudoAvailable ==
    LET cs == CheckSudo(PM, envSudo)
    IN  /\ Becomes(cs.pm)
        /\ pProbes' = pProbes + (IF cs.probed THEN 1 ELSE 0)
        /\ pLast' = [NoCall EXCEPT !.fn = "CheckSudoAvailable", !.approved = cs.result,
                                   !.probed = cs.probed, !.mapBefore = userApproved,
                                   !.testedBefore = sudoTested,
                                   !.availBefore = sudoAvailable, !.envAt = envSudo]
        /\ UNCHANGED <<envSudo, pRecorded, pAlways>>
        /\ UNCHANGED nonPermVars

\* a call of RequestRootPermission
RequestRootPermission ==
    \E tc \in RequestArgs : \E rd \in Reads(PM, envSudo, tc[1], tc[2]) :
        LET tool == tc[1]
            command == tc[2]
            q == Request(PM, envSudo, tool, command, rd)
        IN  /\ Becomes(q.pm)
            /\ pProbes' = pProbes + (IF q.probed THEN 1 ELSE 0)
            /\ Observe("RequestRootPermission", tool, command, rd, q, <<>>, q.err, FALSE)
            /\ UNCHANGED envSudo
            /\ UNCHANGED nonPermVars

\* an external process that was started: its argv and what it exited with
Exec(argv, exit) == [cmd |-> argv, exit |-> exit]

\* the command is run although the user denied it
MayRun_IgnoresDenial(approved, err) == err = NoErr

\* whether the command under sudo is run after RequestRootPermission
\* returned (approved, err)
MayRun(approved, err) == err = NoErr /\ approved

\* a privileged result whatever the command under sudo exited with
RanPrivileged_IgnoresExit(run, x) == run

\* whether RunWithFallback returns the output of the command under sudo
RanPrivileged(run, x) == run /\ x = NoErr

\* a call of RunWithSudo: the request, then the command under sudo
RunWithSudo ==
    \E tool \in RunTools, args \in RootArgs :
        LET command == SudoCommand(tool, args)
        IN  \E rd \in Reads(PM, envSudo, tool, command) :
            LET q == Request(PM, envSudo, tool, command, rd)
                run == MayRun(q.approved, q.err)
            IN  \E x \in (IF run THEN ExecErrs ELSE {NoErr}) :
                /\ Becomes(q.pm)
                /\ pProbes' = pProbes + (IF q.probed THEN 1 ELSE 0)
                /\ Observe("RunWithSudo", tool, command, rd, q,
                           IF run THEN <<Exec(<<"sudo", tool>> \o args, x)>> ELSE <<>>,
                           IF q.err # NoErr THEN q.err
                           ELSE IF ~q.approved THEN ExtErr("user denied permission")
                           ELSE IF x # NoErr THEN Errorf("command failed: ", x)
                           ELSE NoErr,
                           FALSE)
                /\ UNCHANGED envSudo
                /\ UNCHANGED nonPermVars

\* a call of RunWithFallback: with sudo available the request and the command
\* under sudo; unless that succeeded, the command without sudo
RunWithFallback ==
    \E tool \in RunTools, rootArgs \in RootArgs, fallbackArgs \in FallbackArgs :
        LET cs == CheckSudo(PM, envSudo)
            command == SudoCommand(tool, rootArgs)
        IN  \E rd \in (IF cs.result THEN Reads(cs.pm, envSudo, tool, command) ELSE {NoRead}) :
            LET q == Request(cs.pm, envSudo, tool, command, rd)
                run == cs.result /\ MayRun(q.approved, q.err)
            IN  \E x \in (IF run THEN ExecErrs ELSE {NoErr}) :
                LET privileged == RanPrivileged(run, x)
                IN  \E y \in (IF privileged THEN {NoErr} ELSE ExecErrs) :
                    LET ran == (IF run THEN <<Exec(<<"sudo", tool>> \o rootArgs, x)>>
                                ELSE <<>>)
                                  \o (IF privileged THEN <<>>
                                      ELSE <<Exec(<<tool>> \o fallbackArgs, y)>>)
                        out == IF privileged \/ y = NoErr THEN NoErr
                               ELSE Errorf("fallback scan failed: ", y)
                    IN  /\ Becomes(IF cs.result THEN q.pm ELSE cs.pm)
                        /\ pProbes' = pProbes + (IF cs.probed THEN 1 ELSE 0)
                        /\ IF cs.result
                           THEN Observe("RunWithFallback", tool, command, rd,
                                        [q EXCEPT !.probed = cs.probed], ran, out, privileged)
                           ELSE /\ pLast' = [NoCall EXCEPT !.fn = "RunWithFallback",
                                                !.tool = tool, !.command = command,
                                                !.probed = cs.probed, !.ran = ran, !.out = out,
                                                !.mapBefore = userApproved,
                                                !.testedBefore = sudoTested,
                                                !.availBefore = sudoAvailable,
                                                !.envAt = envSudo]
                                /\ UNCHANGED <<pRecorded, pAlways>>
                        /\ UNCHANGED envSudo
                        /\ UNCHANGED nonPermVars

\* the environment changes between calls: sudo is installed, removed, configured
EnvChanges ==
    /\ \E e \in SudoEnvs \ {envSudo} : envSudo' = e
    /\ UNCHANGED <<sudoAvailable, sudoTested, userApproved, permObs>>
    /\ UNCHANGED nonPermVars

\* NewPermissionManager, in any environment
InitPerm ==
    /\ sudoAvailable = FALSE /\ sudoTested = FALSE
    /\ userApproved = <<>>
    /\ envSudo \in SudoEnvs
    /\ pLast = NoCall /\ pRecorded = <<>> /\ pAlways = {} /\ pProbes = 0
    /\ RetryIdle /\ ClassIdle /\ ExtractIdle /\ AiIdle

NextPerm ==
    \/ CheckSudoAvailable
    \/ RequestRootPermission
    \/ RunWithSudo
    \/ RunWithFallback
    \/ EnvChanges

SpecPerm == InitPerm /\ [][NextPerm]_vars

(***************************************************************************)
(* The classifier on its own: isRetryableError applied to one error        *)
(***************************************************************************)
MaxMsgParts == 2

\* pieces of error messages: the six patterns in several spellings, pieces
\* that only form a pattern when put together, and text that matches nothing
MsgParts ==
    {"", "HTTP 429", "Rate Limit", "TIMEOUT", "Temporary", "connection",
     "Deadline Exceeded", "rate", " limit", "4", "29", "time", "out",
     "invalid api key: ", "empty AI response", "deadline", " exceed", "ed"}

RECURSIVE Msgs(_)
Msgs(n) == IF n = 0 THEN {""} ELSE {m \o p : m \in Msgs(n - 1), p \in MsgParts}

\* the errors the classifier is applied to: nil, the two package errors, errors
\* of the external client, and each of them wrapped as analyzeScanOnce wraps
ClassifierInputs ==
    LET base == {errEmptyResponse, errRateLimitExceeded}
                    \cup {ExtErr(m) : m \in Msgs(MaxMsgParts)}
    IN  {NoErr} \cup base \cup {Errorf("failed to run analysis: ", e) : e \in base}

InitClassify ==
    /\ cErr \in ClassifierInputs /\ cDone = FALSE /\ cRes = FALSE
    /\ RetryIdle /\ PermIdle /\ ExtractIdle /\ AiIdle

\* one call of isRetryableError(cErr)
Classify ==
    /\ ~cDone
    /\ cRes' = isRetryableError(cErr)
    /\ cDone' = TRUE
    /\ UNCHANGED <<cErr, nonClassVars>>

NextClassify == Classify

SpecClassify == InitClassify /\ [][NextClassify]_vars

MaxTextLen == 2

\* the characters of response texts: two kinds of white space and a letter
TextChars == {" ", "\n", "R"}

RECURSIVE Texts(_)
Texts(n) ==
    IF n = 0 THEN {""}
    ELSE Texts(n - 1) \cup {t \o c : t \in Texts(n - 1), c \in TextChars}

\* the errors a.client.Run returns in this model: three the classifier
\* retries on, three it does not
RunErrs ==
    {ExtErr("HTTP 429 Too Many Requests"), ExtErr("context deadline exceeded"),
     ExtErr("dial tcp: Connection refused"), ExtErr("invalid api key"),
     ExtErr("context canceled"), ExtErr("model not found")}

\* what a.client.Run returns: a text and no error, or an error
RunOutcomes ==
    {[text |-> t, err |-> NoErr] : t \in Texts(MaxTextLen)}
        \cup {[text |-> "", err |-> e] : e \in RunErrs}

\* how long one a.client.Run takes, in seconds
RunDurations == {1, 285, 300}

\* how far into a backoff sleep a cancellation arrives, in seconds
CancelOffsets == {0, 7}

\* ctx.Err() once the clock reads t
CtxAt(t) == IF ctxErr = "none" /\ t >= deadline THEN "deadline exceeded" ELSE ctxErr

\* the observers of ctx becoming done, for a step that moves the clock to t
NoteCtx(t) ==
    IF ctxErr = "none" /\ CtxAt(t) # "none"
    THEN ctxDonePc' = pc /\ ctxDoneAt' = deadline
    ELSE UNCHANGED <<ctxDonePc, ctxDoneAt>>

\* the body of AnalyzeScanWithRetry and of QueryWithRetry up to the loop: the
\* caller's ctx may already be cancelled; context.WithTimeout sets the deadline
Start(o, timeout) ==
    /\ pc = "idle"
    /\ op' = o
    /\ deadline' = now + timeout
    /\ \E parent \in {"none", "canceled"} :
          /\ ctxErr' = parent
          /\ ctxDonePc' = (IF parent = "none" THEN "none" ELSE "idle")
          /\ ctxDoneAt' = (IF parent = "none" THEN -1 ELSE now)
    /\ attempt' = 0
    /\ lastErr' = NoErr
    /\ pc' = "loop"
    /\ UNCHANGED <<now, sleepUntil, ret, calls, fails, fnOut, fnErr, naps, woke, doneAtCheck>>
    /\ UNCHANGED nonRetryVars

AnalyzeScanWithRetry == Start("Analyze", defaultAnalysisTimeout)

QueryWithRetry == Start("Query", defaultQueryTimeout)

\* the caller cancels ctx: before the loop checks it, while fn is about to
\* run, or off seconds into a backoff sleep (at the timer's instant at most)
Cancel ==
    /\ pc \in {"loop", "attempt", "sleep"}
    /\ ctxErr = "none"
    /\ \E off \in CancelOffsets \cup {sleepUntil - now} :
          /\ IF pc = "sleep" THEN now + off <= sleepUntil /\ now + off < deadline
                             ELSE off = 0
          /\ now' = now + off
    /\ ctxErr' = "canceled"
    /\ ctxDonePc' = pc
    /\ ctxDoneAt' = now'
    /\ UNCHANGED <<op, pc, attempt, lastErr, deadline, sleepUntil, ret>>
    /\ UNCHANGED <<calls, fails, fnOut, fnErr, naps, woke, doneAtCheck>>
    /\ UNCHANGED nonRetryVars

LoopCheck_NoCheck ==
    /\ pc = "loop"
    /\ doneAtCheck' = ctxErr
    /\ pc' = "attempt"
    /\ UNCHANGED <<op, attempt, lastErr, ctxErr, now, deadline, sleepUntil, ret>>
    /\ UNCHANGED <<calls, fails, fnOut, fnErr, naps, woke, ctxDonePc, ctxDoneAt>>
    /\ UNCHANGED nonRetryVars

\* the select at the top of the loop: return ctx.Err() when ctx is done
LoopCheck ==
    /\ pc = "loop"
    /\ doneAtCheck' = ctxErr
    /\ IF ctxErr # "none"
       THEN /\ ret' = [result |-> ZeroResult(op), err |-> CtxError(ctxErr)]
            /\ pc' = "done"
       ELSE /\ pc' = "attempt"
            /\ UNCHANGED ret
    /\ UNCHANGED <<op, attempt, lastErr, ctxErr, now, deadline, sleepUntil>>
    /\ UNCHANGED <<calls, fails, fnOut, fnErr, naps, woke, ctxDonePc, ctxDoneAt>>
    /\ UNCHANGED nonRetryVars

\* fn(ctx) runs for d seconds, the external call returning out, and the rest
\* of the loop body follows: return, or enter sleepWithContext, or leave the
\* loop with "max retries exceeded"
Attempt ==
    /\ pc = "attempt"
    /\ \E out \in RunOutcomes :
          LET r == fn(op, out)
              b == retryBody(op, attempt, lastErr, r)
              retryable == SpecRetryable(r.err)
          IN  \E d \in RunDurations :
              /\ now' = now + d
              /\ ctxErr' = CtxAt(now + d)
              /\ NoteCtx(now + d)
              /\ calls' = calls + 1
              /\ fnOut' = out
              /\ fnErr' = r.err
              /\ fails' = (IF retryable THEN fails + 1 ELSE fails)
              /\ lastErr' = b.lastErr
              /\ ret' = b.ret
              /\ IF b.next = "sleep"
                 THEN /\ pc' = "sleep"
                      /\ sleepUntil' = now + d + BackoffDelay(attempt)
                      /\ naps' = Append(naps, [from |-> now + d, delay |-> BackoffDelay(attempt)])
                      /\ UNCHANGED attempt
                 ELSE /\ pc' = (IF b.next = "loop" THEN "loop" ELSE "done")
                      /\ attempt' = (IF b.next = "loop" THEN attempt + 1 ELSE attempt)
                      /\ UNCHANGED <<sleepUntil, naps>>
    /\ UNCHANGED <<op, deadline, woke, doneAtCheck>>
    /\ UNCHANGED nonRetryVars

SleepCtxDone_WaitsOut ==
    /\ pc = "sleep"
    /\ ctxErr # "none" \/ deadline <= sleepUntil
    /\ now' = sleepUntil
    /\ ctxErr' = CtxAt(deadline)
    /\ NoteCtx(deadline)
    /\ ret' = [result |-> ZeroResult(op), err |-> CtxError(ctxErr')]
    /\ pc' = "done"
    /\ UNCHANGED <<op, attempt, lastErr, deadline, sleepUntil>>
    /\ UNCHANGED <<calls, fails, fnOut, fnErr, naps, woke, doneAtCheck>>
    /\ UNCHANGED nonRetryVars

\* sleepWithContext takes the case <-ctx.Done(): ctx is done already, or the
\* deadline comes no later than the timer; the loop returns ctx.Err()
SleepCtxDone ==
    /\ pc = "sleep"
    /\ ctxErr # "none" \/ deadline <= sleepUntil
    /\ now' = (IF ctxErr # "none" THEN now ELSE deadline)
    /\ ctxErr' = CtxAt(deadline)
    /\ NoteCtx(deadline)
    /\ ret' = [result |-> ZeroResult(op), err |-> CtxError(ctxErr')]
    /\ pc' = "done"
    /\ UNCHANGED <<op, attempt, lastErr, deadline, sleepUntil>>
    /\ UNCHANGED <<calls, fails, fnOut, fnErr, naps, woke, doneAtCheck>>
    /\ UNCHANGED nonRetryVars

\* sleepWithContext takes the case <-timer.C: the timer fired with ctx not
\* done, or in the same instant as ctx became done (select then picks either);
\* the loop goes on to attempt++ and its condition
SleepTimer ==
    /\ pc = "sleep"
    /\ IF ctxErr = "none" THEN sleepUntil <= deadline ELSE now = sleepUntil
    /\ now' = sleepUntil
    /\ ctxErr' = CtxAt(sleepUntil)
    /\ NoteCtx(sleepUntil)
    /\ woke' = Append(woke, sleepUntil)
    /\ attempt' = attempt + 1
    /\ IF LoopContinues(attempt + 1)
       THEN pc' = "loop" /\ UNCHANGED ret
       ELSE /\ pc' = "done"
            /\ ret' = [result |-> ZeroResult(op),
                       err |-> Errorf("max retries exceeded: ", lastErr)]
    /\ UNCHANGED <<op, lastErr, deadline, sleepUntil>>
    /\ UNCHANGED <<calls, fails, fnOut, fnErr, naps, doneAtCheck>>
    /\ UNCHANGED nonRetryVars

InitRetry == RetryIdle /\ ClassIdle /\ PermIdle /\ ExtractIdle /\ AiIdle

NextRetry ==
    \/ AnalyzeScanWithRetry
    \/ QueryWithRetry
    \/ Cancel
    \/ LoopCheck
    \/ Attempt
    \/ SleepCtxDone
    \/ SleepTimer

SpecRetry == InitRetry /\ [][NextRetry]_vars

(***************************************************************************)
(* The response extraction: parseAnalysisSummary, parseRiskScore,          *)
(* parseCriticalIssues, parseRecommendations, parseAnalysisResponse.       *)
(* Indices are Go's, from 0.  An index expression out of range is a panic: *)
(* the functions that index return [ok, v], ok = FALSE for a panic.        *)
(***************************************************************************)
Digits == "0123456789"
DigitSet == {CharAt(Digits, i) : i \in 1..Len(Digits)}

\* int(c - '0')
DigitVal == [c \in DigitSet |-> (CHOOSE i \in 1..Len(Digits) : CharAt(Digits, i) = c) - 1]

\* c >= '0' && c <= '9'
IsDigit(c) == c \in DigitSet

RECURSIVE Split(_, _)
\* strings.Split(s, sep) for a separator of one character
Split(s, sep) ==
    LET hits == {i \in 1..Len(s) : CharAt(s, i) = sep}
    IN  IF hits = {} THEN <<s>>
        ELSE LET k == CHOOSE i \in hits : \A j \in hits : i <= j
             IN  <<SubSeq(s, 1, k - 1)>> \o Split(SubSeq(s, k + 1, Len(s)), sep)

\* a value returned normally, and the outcome of an index out of range
Ok(v) == [ok |-> TRUE, v |-> v]
Panic == [ok |-> FALSE, v |-> "panic: index out of range"]

\* lines[i]
ElemAt(lines, i) == IF 0 <= i /\ i < Len(lines) THEN Ok(lines[i + 1]) ELSE Panic

\* line[i]
ByteAt(line, i) == IF 0 <= i /\ i < Len(line) THEN Ok(CharAt(line, i + 1)) ELSE Panic

\* the guard dropped: the line after a "summary" line is taken unconditionally
SummaryFollows_Always(lines, i) == TRUE

\* i+1 < len(lines)
SummaryFollows(lines, i) == i + 1 < Len(lines)

RECURSIVE SummaryLoop(_, _, _)
\* the loop of parseAnalysisSummary from index i on, and the fallback after it
SummaryLoop(text, lines, i) ==
    IF i >= Len(lines)
    THEN ElemAt(Split(text, "\n"), 0)
    ELSE IF Contains(ToLower(lines[i + 1]), "summary") /\ SummaryFollows(lines, i)
    THEN LET next == ElemAt(lines, i + 1)
         IN  IF next.ok THEN Ok(TrimSpace(next.v)) ELSE Panic
    ELSE SummaryLoop(text, lines, i + 1)

parseAnalysisSummary(text) == SummaryLoop(text, Split(text, "\n"), 0)

\* the inner scan of a line ending without a return
NoScore == -1

\* return 50 // default medium risk
DefaultRiskScore == 50

\* the range test dropped: every run of digits is returned
InScoreRange_Any(score) == TRUE

\* score >= 0 && score <= 100
InScoreRange(score) == score >= 0 /\ score <= 100

RECURSIVE RunValue(_, _, _)
\* the loop over j: the digits from index j on, appended to score
RunValue(line, j, score) ==
    IF j < Len(line)
    THEN LET b == ByteAt(line, j)
         IN  IF ~b.ok THEN Panic
             ELSE IF IsDigit(b.v) THEN RunValue(line, j + 1, score * 10 + DigitVal[b.v])
             ELSE Ok(score)
    ELSE Ok(score)

RECURSIVE ScanLine(_, _)
\* the loop over i: for i := i; i < len(line)-1; i++
ScanLine(line, i) ==
    IF ~(i < Len(line) - 1) THEN Ok(NoScore)
    ELSE LET b == ByteAt(line, i)
         IN  IF ~b.ok THEN Panic
             ELSE IF IsDigit(b.v)
             THEN LET score == RunValue(line, i, 0)
                  IN  IF ~score.ok THEN Panic
                      ELSE IF InScoreRange(score.v) THEN score
                      ELSE ScanLine(line, i + 1)
             ELSE ScanLine(line, i + 1)

RECURSIVE ScoreLoop(_, _)
\* the loop over the lines, from the n-th line on
ScoreLoop(lines, n) ==
    IF n > Len(lines) THEN Ok(DefaultRiskScore)
    ELSE IF Contains(ToLower(lines[n]), "risk score")
    THEN LET r == ScanLine(lines[n], 0)
         IN  IF ~r.ok THEN Panic
             ELSE IF r.v # NoScore THEN r
             ELSE ScoreLoop(lines, n + 1)
    ELSE ScoreLoop(lines, n + 1)

parseRiskScore(text) == ScoreLoop(Split(text, "\n"), 1)

RECURSIVE CriticalLoop(_, _, _, _)
\* the loop of parseCriticalIssues from the n-th line on
CriticalLoop(lines, n, inCritical, issues) ==
    IF n > Len(lines) THEN issues
    ELSE LET line == lines[n]
             lower == ToLower(line)
             trimmed == TrimSpace(line)
         IN  IF Contains(lower, "critical")
             THEN CriticalLoop(lines, n + 1, TRUE, issues)
             ELSE LET found == IF /\ inCritical /\ trimmed # ""
                                  /\ (HasPrefix(trimmed, "-") \/ HasPrefix(trimmed, "*"))
                               THEN Append(issues, trimmed)
                               ELSE issues
                  IN  IF inCritical /\ Contains(lower, "recommendation")
                      THEN found
                      ELSE CriticalLoop(lines, n + 1, inCritical, found)

parseCriticalIssues(text) == CriticalLoop(Split(text, "\n"), 1, FALSE, <<>>)

\* models.Recommendation as parseRecommendations fills it
Recommendation(trimmed) ==
    [Priority |-> "medium", Title |-> trimmed, Description |-> trimmed,
     Impact |-> "unknown", Effort |-> "medium"]

RECURSIVE RecommendationLoop(_, _, _, _)
\* the loop of parseRecommendations from the n-th line on
RecommendationLoop(lines, n, inRecommendations, recommendations) ==
    IF n > Len(lines) THEN recommendations
    ELSE LET line == lines[n]
             trimmed == TrimSpace(line)
         IN  IF Contains(ToLower(line), "recommendation")
             THEN RecommendationLoop(lines, n + 1, TRUE, recommendations)
             ELSE IF /\ inRecommendations /\ trimmed # ""
                     /\ (\/ HasPrefix(trimmed, "-") \/ HasPrefix(trimmed, "*")
                         \/ HasPrefix(trimmed, "1"))
             THEN RecommendationLoop(lines, n + 1, inRecommendations,
                                     Append(recommendations, Recommendation(trimmed)))
             ELSE RecommendationLoop(lines, n + 1, inRecommendations, recommendations)

parseRecommendations(text) == RecommendationLoop(Split(text, "\n"), 1, FALSE, <<>>)

\* parseAnalysisResponse (and the same four calls in analyzeScanOnce): the
\* fields extracted from the text; ScanID and Timestamp do not depend on it
parseAnalysisResponse(text) ==
    LET summary == parseAnalysisSummary(text)
        risk == parseRiskScore(text)
    IN  [ok |-> summary.ok /\ risk.ok,
         Summary |-> summary.v,
         RiskScore |-> risk.v,
         CriticalIssues |-> parseCriticalIssues(text),
         Recommendations |-> parseRecommendations(text)]

\* the response texts: up to MaxParts of these pieces, joined by newlines
MaxParts == 3

ExtractParts ==
    {"", "Summary", " All good ", "Risk Score: 87/100", "Risk Score: 150",
     "Risk Score: 175", "risk score 7", "RISK SCORE high", "Critical issues",
     "- sqli", " * xss", "1. patch", "Recommendations",
     "- Critical: xxe", "- see recommendation 2"}

RECURSIVE PartSeqs(_)
PartSeqs(n) ==
    IF n = 0 THEN {<<>>}
    ELSE PartSeqs(n - 1) \cup
         {Append(q, x) : q \in {y \in PartSeqs(n - 1) : Len(y) = n - 1}, x \in ExtractParts}

ExtractTexts == {Join(q, "\n") : q \in PartSeqs(MaxParts)}

InitExtract ==
    /\ eText \in ExtractTexts /\ eDone = FALSE /\ eOut = NoExtract
    /\ RetryIdle /\ ClassIdle /\ PermIdle /\ AiIdle

\* parseAnalysisResponse(eText)
Extract ==
    /\ ~eDone
    /\ eOut' = parseAnalysisResponse(eText)
    /\ eDone' = TRUE
    /\ UNCHANGED eText
    /\ UNCHANGED nonExtractVars

NextExtract == Extract

SpecExtract == InitExtract /\ [][NextExtract]_vars

(***************************************************************************)
(* The UsageTracker: RecordUsage, GetSummary, CalculateCost.  Each method  *)
(* holds the tracker's lock for its whole body and is one step.  Prices    *)
(* are in hundredths of a dollar per million tokens, so that 0.80 is the   *)
(* integer 80, and costs in units of 10^-8 dollar: the cost of a record is *)
(* then InputTokens * input price + OutputTokens * output price exactly.   *)
(* Durations are in seconds.                                               *)
(***************************************************************************)
modelPricing ==
    [m \in {"claude-opus-4.6", "claude-sonnet-4.5", "claude-sonnet-4.5-20250929",
            "claude-haiku-4.5"} |->
        IF m = "claude-opus-4.6"
        THEN [InputCostPerMToken |-> 1500, OutputCostPerMToken |-> 7500]
        ELSE IF m = "claude-haiku-4.5"
        THEN [InputCostPerMToken |-> 80, OutputCostPerMToken |-> 400]
        ELSE [InputCostPerMToken |-> 300, OutputCostPerMToken |-> 1500]]

\* the output tokens left out of the cost
CalculateCost_InputOnly(u) ==
    IF u.Model \notin DOMAIN modelPricing THEN 0
    ELSE u.InputTokens * modelPricing[u.Model].InputCostPerMToken

\* UsageStats.CalculateCost
CalculateCost(u) ==
    IF u.Model \notin DOMAIN modelPricing THEN 0
    ELSE LET pricing == modelPricing[u.Model]
             inputCost == u.InputTokens * pricing.InputCostPerMToken
             outputCost == u.OutputTokens * pricing.OutputCostPerMToken
         IN  inputCost + outputCost

\* the zero values a map read returns for a missing key
ZeroAgentSummary ==
    [Agent |-> "", Model |-> "", InputTokens |-> 0, OutputTokens |-> 0, Cost |-> 0,
     Duration |-> 0, Operations |-> 0, Successes |-> 0]
ZeroModelSummary ==
    [Model |-> "", InputTokens |-> 0, OutputTokens |-> 0, Cost |-> 0, Operations |-> 0]

\* the map read m[k]
Get(m, k, zero) == IF k \in DOMAIN m THEN m[k] ELSE zero

\* the body of GetSummary's loop for one record
AddUsage(summary, usage) ==
    LET won == IF usage.Success THEN 1 ELSE 0
        a == Get(summary.ByAgent, usage.Agent, ZeroAgentSummary)
        agentSummary ==
            [Agent |-> usage.Agent, Model |-> usage.Model,
             InputTokens |-> a.InputTokens + usage.InputTokens,
             OutputTokens |-> a.OutputTokens + usage.OutputTokens,
             Cost |-> a.Cost + CalculateCost(usage),
             Duration |-> a.Duration + usage.Duration,
             Operations |-> a.Operations + 1,
             Successes |-> a.Successes + won]
        b == Get(summary.ByModel, usage.Model, ZeroModelSummary)
        modelSummary ==
            [Model |-> usage.Model,
             InputTokens |-> b.InputTokens + usage.InputTokens,
             OutputTokens |-> b.OutputTokens + usage.OutputTokens,
             Cost |-> b.Cost + CalculateCost(usage),
             Operations |-> b.Operations + 1]
    IN  [TotalInputTokens |-> summary.TotalInputTokens + usage.InputTokens,
         TotalOutputTokens |-> summary.TotalOutputTokens + usage.OutputTokens,
         TotalCost |-> summary.TotalCost + CalculateCost(usage),
         TotalDuration |-> summary.TotalDuration + usage.Duration,
         TotalOperations |-> summary.TotalOperations + 1,
         SuccessfulOperations |-> summary.SuccessfulOperations + won,
         ByAgent |-> Put(summary.ByAgent, usage.Agent, agentSummary),
         ByModel |-> Put(summary.ByModel, usage.Model, modelSummary)]

RECURSIVE SummaryOf(_, _)
\* GetSummary's loop over the first n records
SummaryOf(us, n) == IF n = 0 THEN ZeroSummary ELSE AddUsage(SummaryOf(us, n - 1), us[n])

\* at most MaxRecords records are inserted
MaxRecords == 3

\* the stats RecordUsage is called with: Error, StartTime and EndTime are
\* not read by any summary
Usage(model, agent, input, output, duration, success) ==
    [Model |-> model, Agent |-> agent, InputTokens |-> input, OutputTokens |-> output,
     Duration |-> duration, Success |-> success]

UsageInputs ==
    {Usage("claude-opus-4.6", "Exploitation Specialist", 400, 1200, 30, TRUE),
     Usage("claude-haiku-4.5", "Quick Scanner", 0, 0, 600, FALSE),
     Usage("claude-sonnet-4.5-20250929", "Vulnerability Researcher", 1000, 500, 45, TRUE),
     Usage("gpt-4", "Quick Scanner", 800, 800, 5, TRUE)}

\* UsageTracker.RecordUsage
RecordUsage ==
    /\ Len(usages) < MaxRecords
    /\ \E stats \in UsageInputs : usages' = Append(usages, stats)
    /\ uTaken' = FALSE
    /\ uPrev' = NoSummary
    /\ UNCHANGED uSummary
    /\ UNCHANGED nonUsageVars

\* UsageTracker.GetSummary
GetSummary ==
    /\ uSummary' = [taken |-> TRUE, s |-> SummaryOf(usages, Len(usages))]
    /\ uPrev' = (IF uTaken THEN uSummary ELSE NoSummary)
    /\ uTaken' = TRUE
    /\ UNCHANGED usages
    /\ UNCHANGED nonUsageVars

InitUsage == AiIdle /\ RetryIdle /\ ClassIdle /\ PermIdle /\ ExtractIdle

NextUsage == RecordUsage \/ GetSummary

SpecUsage == InitUsage /\ [][NextUsage]_vars

(***************************************************************************)
(* The UsageTracker under concurrent callers.  Each goroutine calls        *)
(* RecordUsage or GetSummary again and again; a call is the steps of its   *)
(* body.  mu is the sync.RWMutex: Lock waits until no goroutine holds it,  *)
(* RLock until no writer holds it.  The append of RecordUsage is not one   *)
(* step: it reads the length of the slice, stores the longer slice, and    *)
(* the record is copied into the new slot; between the last two the slot   *)
(* holds a record not yet written.                                         *)
(***************************************************************************)
\* at most MaxInserts calls of RecordUsage are made
MaxInserts == 2

\* the stats the concurrent callers record
TrackerInputs ==
    {Usage("claude-opus-4.6", "Exploitation Specialist", 400, 1200, 30, TRUE),
     Usage("claude-haiku-4.5", "Quick Scanner", 0, 0, 600, FALSE)}

\* the slot of a record whose copy has not finished
Torn(stats) == [stats EXCEPT !.Model = "", !.Agent = ""]

\* mu.Lock() can return
CanLock(m) == m.w = "" /\ m.r = {}

\* a read lock that does not wait for the writer
CanRLock_NoWait(m) == TRUE

\* mu.RLock() can return
CanRLock(m) == m.w = ""

\* the RecordUsage calls begun so far
Inserting == {g \in Goroutines : tPc[g] \in {"Lock", "load", "grow", "fill", "Unlock"}}

\* a goroutine calls RecordUsage(stats)
RecordUsageCall(g) ==
    /\ tPc[g] = "idle"
    /\ Cardinality(tReturned) + Cardinality(Inserting) < MaxInserts
    /\ \E stats \in TrackerInputs : tArg' = [tArg EXCEPT ![g] = stats]
    /\ tPc' = [tPc EXCEPT ![g] = "Lock"]
    /\ UNCHANGED <<mu, tLen, tBegan, tOut, tReturned, usages>>
    /\ UNCHANGED nonLockVars

\* t.mu.Lock()
Lock(g) ==
    /\ tPc[g] = "Lock" /\ CanLock(mu)
    /\ mu' = [mu EXCEPT !.w = g]
    /\ tPc' = [tPc EXCEPT ![g] = "load"]
    /\ UNCHANGED <<tArg, tLen, tBegan, tOut, tReturned, usages>>
    /\ UNCHANGED nonLockVars

\* append(t.usages, stats): the slice is read
Load(g) ==
    /\ tPc[g] = "load"
    /\ tLen' = [tLen EXCEPT ![g] = Len(usages)]
    /\ tPc' = [tPc EXCEPT ![g] = "grow"]
    /\ UNCHANGED <<mu, tArg, tBegan, tOut, tReturned, usages>>
    /\ UNCHANGED nonLockVars

\* t.usages = append(...): the slice one longer is stored
Grow(g) ==
    /\ tPc[g] = "grow"
    /\ usages' = Append(SubSeq(usages, 1, tLen[g]), Torn(tArg[g]))
    /\ tPc' = [tPc EXCEPT ![g] = "fill"]
    /\ UNCHANGED <<mu, tArg, tLen, tBegan, tOut, tReturned>>
    /\ UNCHANGED nonLockVars

\* append(...): the record is complete in its slot
Fill(g) ==
    /\ tPc[g] = "fill"
    /\ usages' = IF tLen[g] + 1 \in DOMAIN usages
                 THEN [usages EXCEPT ![tLen[g] + 1] = tArg[g]]
                 ELSE usages
    /\ tPc' = [tPc EXCEPT ![g] = "Unlock"]
    /\ UNCHANGED <<mu, tArg, tLen, tBegan, tOut, tReturned>>
    /\ UNCHANGED nonLockVars

\* the deferred t.mu.Unlock(), and RecordUsage returns
Unlock(g) ==
    /\ tPc[g] = "Unlock"
    /\ mu' = [mu EXCEPT !.w = IF mu.w = g THEN "" ELSE mu.w]
    /\ tReturned' = tReturned \cup {[idx |-> tLen[g] + 1, stats |-> tArg[g]]}
    /\ tPc' = [tPc EXCEPT ![g] = "idle"]
    /\ tArg' = [tArg EXCEPT ![g] = <<>>]
    /\ tLen' = [tLen EXCEPT ![g] = 0]
    /\ UNCHANGED <<tBegan, tOut, usages>>
    /\ UNCHANGED nonLockVars

\* a goroutine calls GetSummary()
GetSummaryCall(g) ==
    /\ tPc[g] = "idle"
    /\ tBegan' = [tBegan EXCEPT ![g] = {r.idx : r \in tReturned}]
    /\ tPc' = [tPc EXCEPT ![g] = "RLock"]
    /\ UNCHANGED <<mu, tArg, tLen, tOut, tReturned, usages>>
    /\ UNCHANGED nonLockVars

\* t.mu.RLock()
RLock(g) ==
    /\ tPc[g] = "RLock" /\ CanRLock(mu)
    /\ mu' = [mu EXCEPT !.r = @ \cup {g}]
    /\ tPc' = [tPc EXCEPT ![g] = "range"]
    /\ UNCHANGED <<tArg, tLen, tBegan, tOut, tReturned, usages>>
    /\ UNCHANGED nonLockVars

\* the loop over t.usages
Range(g) ==
    /\ tPc[g] = "range"
    /\ tOut' = [taken |-> TRUE, s |-> SummaryOf(usages, Len(usages)),
                began |-> tBegan[g],
                torn |-> \E i \in DOMAIN usages : usages[i] \notin TrackerInputs]
    /\ tPc' = [tPc EXCEPT ![g] = "RUnlock"]
    /\ UNCHANGED <<mu, tArg, tLen, tBegan, tReturned, usages>>
    /\ UNCHANGED nonLockVars

\* the deferred t.mu.RUnlock(), and GetSummary returns
RUnlock(g) ==
    /\ tPc[g] = "RUnlock"
    /\ mu' = [mu EXCEPT !.r = @ \ {g}]
    /\ tPc' = [tPc EXCEPT ![g] = "idle"]
    /\ tBegan' = [tBegan EXCEPT ![g] = {}]
    /\ UNCHANGED <<tArg, tLen, tOut, tReturned, usages>>
    /\ UNCHANGED nonLockVars

InitTracker ==
    /\ LockIdle /\ UsageIdle /\ AgentIdle /\ ScanIdle
    /\ RetryIdle /\ ClassIdle /\ PermIdle /\ ExtractIdle

NextTracker ==
    \E g \in Goroutines :
        \/ RecordUsageCall(g)
        \/ Lock(g)
        \/ Load(g)
        \/ Grow(g)
        \/ Fill(g)
        \/ Unlock(g)
        \/ GetSummaryCall(g)
        \/ RLock(g)
        \/ Range(g)
        \/ RUnlock(g)

SpecTracker == InitTracker /\ [][NextTracker]_vars

(***************************************************************************)
(* The AgentManager: AnalyzeScanWithAgents, runQuickAnalysis,              *)
(* runStandardAnalysis, runDeepAnalysis, AnalyzeWithAgent.  A call of      *)
(* AnalyzeWithAgent is two steps, agent.client.Run being invoked and       *)
(* returning, with the ticks of its progress goroutine between them.  The  *)
(* return closes the done channel and does not wait for the goroutine,     *)
(* which lingers until its select takes the done case.  The progress       *)
(* messages are written without their pictographs and bullets (non-ASCII   *)
(* characters).                                                            *)
(***************************************************************************)
AgentTypeRecon == "reconnaissance"
AgentTypeVulnerability == "vulnerability"
AgentTypeExploitation == "exploitation"
AgentTypeReport == "report"
AgentTypeQuickScan == "quick-scan"

\* m.agents as NewAgentManager fills it from models.GetDefaultAgents
DefaultAgents ==
    [t \in {AgentTypeQuickScan, AgentTypeRecon, AgentTypeVulnerability,
            AgentTypeExploitation, AgentTypeReport} |->
        CASE t = AgentTypeQuickScan ->
                 [Name |-> "Quick Scanner", Model |-> "claude-haiku-4.5",
                  Description |-> "Fast initial scan analysis"]
          [] t = AgentTypeRecon ->
                 [Name |-> "Reconnaissance Analyst", Model |-> "claude-sonnet-4.5-20250929",
                  Description |-> "Deep reconnaissance and attack surface analysis"]
          [] t = AgentTypeVulnerability ->
                 [Name |-> "Vulnerability Researcher", Model |-> "claude-sonnet-4.5-20250929",
                  Description |-> "Comprehensive vulnerability analysis"]
          [] t = AgentTypeExploitation ->
                 [Name |-> "Exploitation Specialist", Model |-> "claude-opus-4.6",
                  Description |-> "Advanced exploitation path analysis"]
          [] OTHER ->
                 [Name |-> "Security Reporter", Model |-> "claude-sonnet-4.5-20250929",
                  Description |-> "Executive and technical report generation"]]

getModelShortName(model) ==
    CASE model = "claude-opus-4.6" -> "Opus 4.6"
      [] model \in {"claude-sonnet-4.5", "claude-sonnet-4.5-20250929"} -> "Sonnet 4.5"
      [] model = "claude-haiku-4.5" -> "Haiku 4.5"
      [] OTHER -> model

RECURSIVE Itoa(_)
\* %d (and %.0f of a whole number) for a natural number
Itoa(n) ==
    IF n < 10 THEN CharAt(Digits, n + 1)
    ELSE Itoa(n \div 10) \o CharAt(Digits, (n % 10) + 1)

RECURSIVE FindingsFrom(_, _)
\* the loop of formatFindings from the i-th finding on
FindingsFrom(findings, i) ==
    IF i > Len(findings) THEN ""
    ELSE "\n" \o Itoa(i) \o ". [" \o findings[i].Severity \o "] " \o findings[i].Title
         \o (IF findings[i].Description # ""
             THEN "\n   Details: " \o findings[i].Description ELSE "")
         \o FindingsFrom(findings, i + 1)

formatFindings(findings) ==
    IF Len(findings) = 0 THEN "No findings detected" ELSE FindingsFrom(findings, 1)

buildAnalysisPrompt(result) ==
    "# Security Scan Analysis Request\n\n## Target Information\n- **Target**: "
    \o result.Target \o "\n- **Scan Time**: " \o result.StartTime
    \o "\n- **Total Findings**: " \o Itoa(Len(result.Findings))
    \o "\n\n## Analysis Tasks\n1. Executive Summary (2-3 sentences)"
    \o "\n2. Critical Issues (top 3-5 vulnerabilities)\n3. Risk Assessment (score 0-100)"
    \o "\n4. Prioritized Recommendations\n5. Potential Attack Chains\n\n## Scan Findings\n"
    \o formatFindings(result.Findings)
    \o "\n\n## Output Format\nUse markdown headings. Be specific and actionable."

buildReconPrompt(result) ==
    "# Reconnaissance Analysis\n\nAnalyze the target's attack surface:"
    \o "\n- Exposed services and ports\n- Technology stack and versions"
    \o "\n- Configuration weaknesses\n- Potential entry points\n\nTarget: "
    \o result.Target \o "\nFindings: " \o formatFindings(result.Findings)
    \o "\n\nProvide detailed reconnaissance insights."

buildVulnPrompt(result, reconData) ==
    "# Vulnerability Analysis\n\n"
    \o "Based on reconnaissance findings, perform deep vulnerability analysis:"
    \o "\n- OWASP Top 10 vulnerabilities\n- Known CVEs\n- Configuration issues"
    \o "\n- Security misconfigurations\n\nTarget: " \o result.Target
    \o "\nReconnaissance Data:\n" \o reconData
    \o "\n\nScan Findings:\n" \o formatFindings(result.Findings)
    \o "\n\nProvide comprehensive vulnerability assessment with risk scores."

buildExploitPrompt(result, reconData, vulnData) ==
    "# Exploitation Analysis\n\nAnalyze exploitation possibilities:"
    \o "\n- Complete attack chains\n- Exploitation prerequisites"
    \o "\n- Proof-of-concept approaches\n- Real-world impact\n\nTarget: "
    \o result.Target \o "\n\nReconnaissance:\n" \o reconData
    \o "\n\nVulnerabilities:\n" \o vulnData
    \o "\n\nProvide detailed exploitation assessment."

\* the *models.AIAnalysis parseAnalysisResponse(text, scanID) returns
\* the texts agent.client.Run returns
AgentTexts == {"Summary\nok\nRisk Score: 40", ""}

\* the texts the analyses of these hand to parseAnalysisResponse, and what
\* it returns for each of them, computed once
ResponseTexts ==
    AgentTexts \cup
        {"# Reconnaissance Findings\n" \o r \o "\n\n# Vulnerability Analysis\n" \o v
             \o "\n\n# Exploitation Assessment\n" \o e :
            r \in AgentTexts, v \in AgentTexts,
            e \in AgentTexts \cup {"Exploitation analysis not available."}}

ParsedResponses == [t \in ResponseTexts |-> parseAnalysisResponse(t)]

AnalysisOf(text, scanID) ==
    [kind |-> "analysis", text |-> text, ScanID |-> scanID,
     fields |-> IF text \in ResponseTexts THEN ParsedResponses[text]
                ELSE parseAnalysisResponse(text)]

\* progress(msg) when the callback is set
Say(cb, msgs) == IF cb THEN msgs ELSE <<>>

\* every profile outside the three names runs the quick analysis
ProfileRoute_DefaultQuick(profile) ==
    IF profile \in {"standard", "deep"} THEN profile ELSE "quick"

\* the switch of AnalyzeScanWithAgents: the run function a profile selects
ProfileRoute(profile) ==
    CASE profile = "quick" -> "quick"
      [] profile = "standard" -> "standard"
      [] profile = "deep" -> "deep"
      [] OTHER -> "standard"

RECURSIVE ShownFindings(_, _)
\* runStandardAnalysis: the messages for the first three findings
ShownFindings(findings, i) ==
    IF i > Len(findings) \/ i > 3 THEN <<>>
    ELSE <<"    [" \o findings[i].Severity \o "] " \o findings[i].Title>>
         \o ShownFindings(findings, i + 1)

\* the messages a run function passes before its first agent call
Preamble(route, result) ==
    IF route = "standard"
    THEN <<" Preparing analysis of " \o Itoa(Len(result.Findings)) \o " findings from "
           \o result.Target>>
         \o ShownFindings(result.Findings, 1)
         \o (IF Len(result.Findings) > 3
             THEN <<"    ... and " \o Itoa(Len(result.Findings) - 3) \o " more">>
             ELSE <<>>)
         \o <<"">>
    ELSE IF route = "deep"
    THEN <<" Deep analysis mode: Using multiple specialized agents",
           "\n Stage 1/3: Reconnaissance Analysis">>
    ELSE <<>>

\* the stage a run function starts with
FirstStage(route) == IF route = "deep" THEN "recon" ELSE route

\* the agent type each stage calls AnalyzeWithAgent with
StageAgent(stage) ==
    CASE stage = "quick" -> AgentTypeQuickScan
      [] stage = "standard" -> AgentTypeVulnerability
      [] stage = "recon" -> AgentTypeRecon
      [] stage = "vuln" -> AgentTypeVulnerability
      [] OTHER -> AgentTypeExploitation

\* the prompt each stage builds
StagePrompt(stage, result, recon, vuln) ==
    CASE stage \in {"quick", "standard"} -> buildAnalysisPrompt(result)
      [] stage = "recon" -> buildReconPrompt(result)
      [] stage = "vuln" -> buildVulnPrompt(result, recon)
      [] OTHER -> buildExploitPrompt(result, recon, vuln)

\* what the caller of AnalyzeWithAgent does with (text, err): the next
\* stage, the locals, the return values, the text parsed, the messages
Step(stage, recon, vuln, rv, parsed, msgs) ==
    [stage |-> stage, recon |-> recon, vuln |-> vuln, ret |-> rv,
     parsed |-> parsed, msgs |-> msgs]

Fails(recon, vuln, err) ==
    Step("done", recon, vuln, [result |-> NilAnalysis, err |-> err], <<>>, <<>>)

\* runQuickAnalysis and runStandardAnalysis after their agent call
AfterSingle(result, text, err) ==
    IF err # NoErr THEN Fails("", "", err)
    ELSE Step("done", "", "", [result |-> AnalysisOf(text, result.ID), err |-> NoErr],
              <<text>>, <<>>)

\* a failed reconnaissance is passed over and stage 2 runs on an empty text
AfterRecon_Continues(cb, text, err) ==
    Step("vuln", text, "", NoRet, <<>>, Say(cb, <<"\n Stage 2/3: Vulnerability Analysis">>))

\* runDeepAnalysis after stage 1
AfterRecon(cb, text, err) ==
    IF err # NoErr THEN Fails("", "", Errorf("recon stage failed: ", err))
    ELSE Step("vuln", text, "", NoRet, <<>>,
              Say(cb, <<"\n Stage 2/3: Vulnerability Analysis">>))

\* runDeepAnalysis after stage 2
AfterVuln(cb, recon, text, err) ==
    IF err # NoErr THEN Fails(recon, "", Errorf("vulnerability stage failed: ", err))
    ELSE Step("exploit", recon, text, NoRet, <<>>,
              Say(cb, <<"\n Stage 3/3: Exploitation Analysis">>))

\* a failed stage 3 fails the analysis
AfterExploit_Fatal(result, cb, recon, vuln, text, err) ==
    IF err # NoErr THEN Fails(recon, vuln, Errorf("exploitation stage failed: ", err))
    ELSE LET combinedText ==
                 "# Reconnaissance Findings\n" \o recon
                 \o "\n\n# Vulnerability Analysis\n" \o vuln
                 \o "\n\n# Exploitation Assessment\n" \o text
         IN  Step("done", recon, vuln,
                  [result |-> AnalysisOf(combinedText, result.ID), err |-> NoErr],
                  <<combinedText>>, <<>>)

\* runDeepAnalysis after stage 3
AfterExploit(result, cb, recon, vuln, text, err) ==
    LET exploitResult ==
            IF err # NoErr THEN "Exploitation analysis not available." ELSE text
        combinedText ==
            "# Reconnaissance Findings\n" \o recon
            \o "\n\n# Vulnerability Analysis\n" \o vuln
            \o "\n\n# Exploitation Assessment\n" \o exploitResult
    IN  Step("done", recon, vuln,
             [result |-> AnalysisOf(combinedText, result.ID), err |-> NoErr],
             <<combinedText>>,
             IF err # NoErr
             THEN Say(cb, <<"  Exploitation analysis unavailable: " \o err.msg>>)
             ELSE <<>>)

After(stage, result, cb, recon, vuln, text, err) ==
    CASE stage \in {"quick", "standard"} -> AfterSingle(result, text, err)
      [] stage = "recon" -> AfterRecon(cb, text, err)
      [] stage = "vuln" -> AfterVuln(cb, recon, text, err)
      [] OTHER -> AfterExploit(result, cb, recon, vuln, text, err)

\* the caller's state after AnalyzeWithAgent returned (text, err)
Resume(text, err, said) ==
    LET n == After(aStage, aScan, aHasProgress, aRecon, aVuln, text, err)
    IN  /\ aStage' = n.stage
        /\ aRecon' = n.recon
        /\ aVuln' = n.vuln
        /\ aRet' = n.ret
        /\ aParsed' = aParsed \o n.parsed
        /\ aMsgs' = aMsgs \o said \o n.msgs

\* the arguments of AnalyzeScanWithAgents
Profiles == {"quick", "standard", "deep", "", "Deep", "thorough"}

Finding(severity, title, description) ==
    [Severity |-> severity, Title |-> title, Description |-> description]

ScanInputs ==
    {[ID |-> "scan-1", Target |-> "example.com", StartTime |-> "2025-01-01T00:00:00Z",
      Findings |-> <<>>],
     [ID |-> "scan-2", Target |-> "10.0.0.1", StartTime |-> "2025-01-01T00:00:00Z",
      Findings |-> <<Finding("high", "Open port 22", "ssh"),
                     Finding("low", "Server header", ""),
                     Finding("info", "Reachable", ""),
                     Finding("medium", "Weak TLS", "TLS 1.0")>>],
     [ID |-> "scan-3", Target |-> "", StartTime |-> "2025-01-01T00:00:00Z",
      Findings |-> <<>>]}

\* what agent.client.Run returns
AgentErrs == {ExtErr("context deadline exceeded")}
AgentOutcomes ==
    {[text |-> t, err |-> NoErr] : t \in AgentTexts}
        \cup {[text |-> "", err |-> e] : e \in AgentErrs}

\* the ticker period of the progress goroutine: 15 * time.Second
tickPeriod == 15

\* at most MaxTicks ticks are followed during one Run, and at most MaxTicks
\* progress calls of goroutines whose done channel is closed
MaxTicks == 1

\* an agent call is followed while fewer than MaxLinger progress goroutines
\* of earlier calls have still to return
MaxLinger == 1

\* how long after the last tick (or the start) Run returns, in seconds
RunLags == {1}

\* the messages of the goroutine, by stageIdx
stages ==
    <<" Analyzing security findings", " Evaluating risk levels",
      " Identifying attack vectors", " Mapping attack chains",
      " Generating recommendations", " Finalizing analysis">>

\* AnalyzeScanWithAgents up to the first agent call
AnalyzeScanWithAgents ==
    /\ aStage = "idle"
    /\ \E result \in ScanInputs, profile \in Profiles, cb \in BOOLEAN :
           LET route == ProfileRoute(profile)
           IN  /\ aScan' = result
               /\ aProfile' = profile
               /\ aHasProgress' = cb
               /\ aStage' = FirstStage(route)
               /\ aMsgs' = Say(cb, <<" Starting multi-agent analysis...">>
                                        \o Preamble(route, result))
    /\ UNCHANGED <<aRunning, aTicks, aRecon, aVuln, aRet, aLinger, aLog, aParsed, aLate>>
    /\ UNCHANGED usages
    /\ UNCHANGED nonAgentVars

\* AnalyzeWithAgent up to agent.client.Run being invoked
AgentCall ==
    /\ aStage \in {"quick", "standard", "recon", "vuln", "exploit"}
    /\ ~aRunning
    /\ Cardinality(aLinger) < MaxLinger
    /\ LET agentType == StageAgent(aStage)
           prompt == StagePrompt(aStage, aScan, aRecon, aVuln)
       IN  IF agentType \notin DOMAIN DefaultAgents
           THEN /\ Resume("", ExtErr("agent type " \o agentType \o " not found"), <<>>)
                /\ UNCHANGED <<aRunning, aTicks, aLog>>
           ELSE LET config == DefaultAgents[agentType]
                IN  /\ aMsgs' = aMsgs \o Say(aHasProgress,
                                     <<" Using " \o config.Name \o " ("
                                       \o getModelShortName(config.Model) \o ")",
                                       " Task: " \o config.Description>>)
                    /\ aRunning' = TRUE
                    /\ aTicks' = 0
                    /\ aLog' = Append(aLog, [ev |-> "call", agent |-> agentType,
                                             prompt |-> prompt, out |-> NoOut])
                    /\ UNCHANGED <<aStage, aRecon, aVuln, aRet, aParsed>>
    /\ UNCHANGED <<aScan, aProfile, aHasProgress, aLinger, aLate>>
    /\ UNCHANGED usages
    /\ UNCHANGED nonAgentVars

\* the message of the goroutine of an agent at its tick number n + 1
TickMessage(name, n) ==
    LET elapsed == tickPeriod * (n + 1)
    IN  IF n < Len(stages)
        THEN "   " \o stages[n + 1] \o " (" \o Itoa(elapsed) \o "s)"
        ELSE "     " \o name \o " completing analysis... (" \o Itoa(elapsed) \o "s elapsed)"

\* the progress goroutine: case <-ticker.C
ProgressTick ==
    /\ aRunning /\ aHasProgress
    /\ aTicks < MaxTicks
    /\ aTicks' = aTicks + 1
    /\ aMsgs' = Append(aMsgs, TickMessage(DefaultAgents[StageAgent(aStage)].Name, aTicks))
    /\ UNCHANGED <<aScan, aProfile, aHasProgress, aStage, aRunning, aRecon, aVuln, aRet>>
    /\ UNCHANGED <<aLinger, aLog, aParsed, aLate>>
    /\ UNCHANGED usages
    /\ UNCHANGED nonAgentVars

\* a goroutine whose done channel is closed finds ticker.C ready as well and
\* the select takes that case: one more progress call
LateTick ==
    /\ \E g \in aLinger :
           /\ g.ticks < MaxTicks /\ aLate < MaxTicks
           /\ aMsgs' = Append(aMsgs, TickMessage(DefaultAgents[StageAgent(g.stage)].Name,
                                                 g.ticks))
           /\ aLinger' = (aLinger \ {g}) \cup {[g EXCEPT !.ticks = @ + 1]}
    /\ aLate' = aLate + 1
    /\ UNCHANGED <<aScan, aProfile, aHasProgress, aStage, aRunning, aTicks, aRecon, aVuln,
                   aRet>>
    /\ UNCHANGED <<aLog, aParsed>>
    /\ UNCHANGED usages
    /\ UNCHANGED nonAgentVars

\* the progress goroutine: case <-done: return
GoroutineExit ==
    /\ \E g \in aLinger : aLinger' = aLinger \ {g}
    /\ UNCHANGED <<aScan, aProfile, aHasProgress, aStage, aRunning, aTicks, aRecon, aVuln,
                   aRet>>
    /\ UNCHANGED agentObs
    /\ UNCHANGED usages
    /\ UNCHANGED nonAgentVars

\* agent.client.Run returns: the rest of AnalyzeWithAgent, then its caller
\* up to the next agent call or the return of AnalyzeScanWithAgents
AgentReturn ==
    /\ aRunning
    /\ \E out \in AgentOutcomes, lag \in RunLags :
           LET agentType == StageAgent(aStage)
               config == DefaultAgents[agentType]
               prompt == StagePrompt(aStage, aScan, aRecon, aVuln)
               duration == tickPeriod * aTicks + lag
               stats == IF out.err # NoErr
                        THEN Usage(config.Model, config.Name, 0, 0, duration, FALSE)
                        ELSE Usage(config.Model, config.Name, Len(prompt) \div 4,
                                   Len(out.text) \div 4, duration, TRUE)
           IN  /\ usages' = Append(usages, stats)
               /\ aLog' = Append(aLog, [ev |-> "return", agent |-> agentType,
                                        prompt |-> prompt, out |-> out])
               /\ IF out.err # NoErr
                  THEN Resume("", Errorf("analysis failed: ", out.err), <<>>)
                  ELSE Resume(out.text, NoErr, <<>>)
    /\ aRunning' = FALSE
    /\ aLinger' = IF aHasProgress
                  THEN aLinger \cup {[stage |-> aStage, ticks |-> aTicks]}
                  ELSE aLinger
    /\ UNCHANGED <<aScan, aProfile, aHasProgress, aTicks, aLate>>
    /\ UNCHANGED nonAgentVars

InitAgent == AiIdle /\ RetryIdle /\ ClassIdle /\ PermIdle /\ ExtractIdle

NextAgent ==
    \/ AnalyzeScanWithAgents
    \/ AgentCall
    \/ ProgressTick
    \/ AgentReturn
    \/ LateTick
    \/ GoroutineExit

SpecAgent == InitAgent /\ [][NextAgent]_vars

(***************************************************************************)
(* The Scanner (internal/scanner/scanner.go): New, Run, loadModules and    *)
(* the four modules of the catalogue.  Run is its steps: the result is     *)
(* made and the modules are loaded, each module of s.modules is run, and   *)
(* the result is finalized.  IDs and times are left out.                   *)
(***************************************************************************)
\* the Name() of the four module types
BasicSecurityModule == "Basic Security"
HeaderSecurityModule == "Security Headers"
SubdomainModule == "Subdomain Discovery"
PortScanModule == "Port Scanning"

\* Scanner.loadModules: s.modules afterwards
loadModules(modules, profile) ==
    CASE profile = "quick" -> modules \o <<BasicSecurityModule>>
      [] profile = "standard" -> modules \o <<BasicSecurityModule, HeaderSecurityModule>>
      [] profile = "deep" ->
             modules \o <<BasicSecurityModule, HeaderSecurityModule,
                          SubdomainModule, PortScanModule>>
      [] OTHER -> modules

\* Module.Run(target) of the four module types: the findings and the error
ModuleRun(module, target) ==
    IF module = BasicSecurityModule
    THEN [findings |-> <<[Type |-> "configuration", Severity |-> "info",
                          Title |-> "Target Reachable",
                          Description |-> "Successfully connected to " \o target,
                          Location |-> target]>>,
          err |-> NoErr]
    ELSE [findings |-> <<>>, err |-> NoErr]

\* Run is called at most MaxRuns times on the Scanner
MaxRuns == 3

\* the configurations a Scanner is made with
ScanConfigs ==
    {[Target |-> t, Profile |-> p] :
        t \in {"example.com", "10.0.0.1"},
        p \in {"quick", "standard", "deep", "", "custom"}}

\* scanner.New(config)
New ==
    /\ sPc = "none"
    /\ \E config \in ScanConfigs : sConfig' = config
    /\ sModules' = <<>>
    /\ sPc' = "new"
    /\ UNCHANGED <<sNext, sResult, sRuns, sRan>>
    /\ UNCHANGED nonScanVars

\* Scanner.Run up to the loop over s.modules
Run ==
    /\ sPc \in {"new", "returned"}
    /\ sRuns < MaxRuns
    /\ sResult' = [Target |-> sConfig.Target, Status |-> "running",
                   Profile |-> sConfig.Profile, Findings |-> <<>>]
    /\ sModules' = loadModules(sModules, sConfig.Profile)
    /\ sNext' = 1
    /\ sPc' = "loop"
    /\ sRuns' = sRuns + 1
    /\ sRan' = <<>>
    /\ UNCHANGED sConfig
    /\ UNCHANGED nonScanVars

\* one round of the loop: module.Run(s.config.Target)
RunModule ==
    /\ sPc = "loop" /\ sNext <= Len(sModules)
    /\ LET module == sModules[sNext]
           out == ModuleRun(module, sConfig.Target)
       IN  /\ sResult' = IF out.err # NoErr THEN sResult
                         ELSE [sResult EXCEPT !.Findings = @ \o out.findings]
           /\ sRan' = Append(sRan, module)
    /\ sNext' = sNext + 1
    /\ UNCHANGED <<sConfig, sModules, sPc, sRuns>>
    /\ UNCHANGED nonScanVars

\* the loop is over: the result is finalized and returned
RunReturn ==
    /\ sPc = "loop" /\ sNext > Len(sModules)
    /\ sResult' = [sResult EXCEPT !.Status = "completed"]
    /\ sPc' = "returned"
    /\ UNCHANGED <<sConfig, sModules, sNext, sRuns, sRan>>
    /\ UNCHANGED nonScanVars

InitScan ==
    /\ ScanIdle /\ LockIdle /\ UsageIdle /\ AgentIdle
    /\ RetryIdle /\ ClassIdle /\ PermIdle /\ ExtractIdle

NextScan == New \/ Run \/ RunModule \/ RunReturn

SpecScan == InitScan /\ [][NextScan]_vars

(***************************************************************************)
(* C1, C2, C4..C8: the retry loop                                          *)
(***************************************************************************)
\* the tag of the error the loop returns when it gives up, as a caller sees it
HasTag(e) == HasPrefix(e.msg, "max retries exceeded")

AllWhite(t) == \A i \in 1..Len(t) : CharAt(t, i) \in WhiteSpace

\* C1: one call of the retry loop invokes fn at most 3 times; when three
\* attempts have failed with retryable errors the call has ended, tagged as
\* retries exhausted, after exactly 3 invocations.
C1_AttemptCeiling ==
    /\ calls <= 3
    /\ fails = 3 => pc = "done" /\ calls = 3 /\ HasTag(ret.err)

\* C1 witness: a call that ended exhausted after three retryable failures
C1_Witness == pc = "done" /\ calls = 3 /\ fails = 3 /\ HasTag(ret.err)

C4_FatalReturnsAtOnce ==
    (calls > 0 /\ fnErr # NoErr /\ ~SpecRetryable(fnErr)) =>
        /\ pc = "done"
        /\ ret = [result |-> ZeroResult(op), err |-> fnErr]
        /\ ~HasTag(ret.err)
        /\ Len(naps) = calls - 1
        /\ Len(woke) = calls - 1

\* C4 witness: the second attempt of an Analyze call failed fatally
C4_Witness ==
    /\ pc = "done" /\ op = "Analyze" /\ calls = 2
    /\ fnErr = Errorf("failed to run analysis: ", ExtErr("invalid api key"))
    /\ ret.err = fnErr

\* C5: a call that ended returns the tagged retries-exhausted error exactly
\* when three attempts failed with retryable errors, and that error wraps the
\* error of the third attempt.
C5_ExhaustedWrapsLast ==
    pc = "done" =>
        /\ HasTag(ret.err) <=> (calls = 3 /\ fails = 3)
        /\ HasTag(ret.err) =>
              /\ ret.err.msg = "max retries exceeded: " \o fnErr.msg
              /\ ret.err.unwrap = <<fnErr>>
              /\ ret.result = ZeroResult(op)

\* C5 witness: exhausted, the third attempt having got an all-blank response
C5_Witness ==
    /\ pc = "done" /\ HasTag(ret.err) /\ calls = 3
    /\ fnErr = errEmptyResponse
    /\ ret.err.unwrap = <<errEmptyResponse>>

\* C6: at the top of the loop a done ctx ends the call with ctx.Err() and fn
\* is not invoked; fn is invoked only after a check that found ctx not done,
\* and never once the deadline has passed.
C6_CheckedBeforeAttempt ==
    [][/\ (pc = "loop" /\ ctxErr # "none") =>
              /\ pc' = "done"
              /\ ret' = [result |-> ZeroResult(op), err |-> CtxError(ctxErr)]
              /\ calls' = calls
       /\ calls' # calls =>
              /\ doneAtCheck = "none"
              /\ ctxErr # "deadline exceeded"
              /\ now < deadline]_vars

\* C6 witness: the deadline passed as the first sleep's timer fired; the check
\* before attempt 2 ended the call with two attempts still allowed
C6_Witness ==
    /\ pc = "done" /\ doneAtCheck = "deadline exceeded" /\ calls = 1
    /\ ret.err = CtxError("deadline exceeded")

\* C7: when ctx becomes done during a backoff sleep, no further attempt is
\* made and the call returns ctx.Err(), not the retryable error nor the
\* retries-exhausted error; when ctx became done before the timer's instant
\* the call returns at that moment, the rest of the delay not waited out.
C7_SleepInterrupted ==
    ctxDonePc = "sleep" =>
        /\ pc \in {"sleep", "loop", "done"}
        /\ calls = Len(naps)
        /\ pc = "done" =>
              /\ ret = [result |-> ZeroResult(op), err |-> CtxError(ctxErr)]
              /\ ret.err # lastErr
              /\ ~HasTag(ret.err)
              /\ ctxDoneAt < sleepUntil => now = ctxDoneAt

\* C7 witness: cancelled 7 s into the 30 s sleep, the call ended at once
C7_Witness ==
    /\ pc = "done" /\ ctxDonePc = "sleep" /\ ctxErr = "canceled"
    /\ Len(naps) = 2 /\ ctxDoneAt = naps[2].from + 7
    /\ now = ctxDoneAt

\* C8: an invocation whose external call succeeded with a text that is all
\* white space returned the empty-response error and no result; the loop took
\* it as retryable: it ends with that error only as retries exhausted after 3
\* attempts (or with ctx.Err()), in Analyze and in Query.
C8_EmptyResponseRetried ==
    (calls > 0 /\ fnOut.err = NoErr /\ AllWhite(fnOut.text)) =>
        /\ fnErr = errEmptyResponse
        /\ lastErr = errEmptyResponse
        /\ pc \in {"loop", "attempt", "sleep"} => calls < 3
        /\ pc = "done" =>
              /\ ret.result = ZeroResult(op)
              /\ \/ calls = 3 /\ ret.err = Errorf("max retries exceeded: ", errEmptyResponse)
                 \/ calls < 3 /\ ret.err = CtxError(ctxErr)

\* C8 witness: a Query call whose third response was blank ended exhausted
C8_Witness ==
    /\ op = "Query" /\ pc = "done" /\ calls = 3
    /\ fnOut = [text |-> " \n", err |-> NoErr]
    /\ ret.err = Errorf("max retries exceeded: ", errEmptyResponse)

(***************************************************************************)
(* C3                                                                      *)
(***************************************************************************)
\* C3 as stated: an error is retryable exactly when its message mentions one
\* of the six patterns in any case; every other error string is fatal.
C3_AsStated == cDone => (cRes = MentionsPattern(cErr.msg))

\* C3 amended: an error is retryable exactly when its message mentions one of
\* the six patterns in any case, or it is (or wraps) the empty-response
\* error; every other error, nil included, is fatal.
C3_Classifier == cDone => (cRes = SpecRetryable(cErr))

\* C3 witness: the classifier has judged the empty-response error, whose
\* message mentions no pattern, and found it retryable
C3_Witness ==
    /\ cDone /\ cRes
    /\ cErr = errEmptyResponse
    /\ ~MentionsPattern(cErr.msg)

(***************************************************************************)
(* C9, C10: the PermissionManager                                          *)
(***************************************************************************)
\* C9 as stated: once the user has answered "always" for a tool, every later
\* request for that tool, whatever its command, returns approved with a nil
\* error and without prompting.
C9_AlwaysCoversTool ==
    (pLast.requested /\ pLast.alwaysBefore) =>
        (pLast.approved /\ pLast.err = NoErr /\ ~pLast.prompted)

\* C10 as stated: once the prompt has recorded a decision for (tool, command),
\* every later request with the same tool and command returns that decision
\* with a nil error, without reading a line and without probing sudo.
C10_SameRequestSameAnswer ==
    (pLast.requested /\ pLast.recordedBefore # "unasked") =>
        /\ Decision(pLast.approved) = pLast.recordedBefore
        /\ pLast.err = NoErr
        /\ ~pLast.prompted
        /\ ~pLast.probed

(***************************************************************************)
(* C11, C12, C13: the prompt, the sudo probe, recorded decisions           *)
(***************************************************************************)
\* the blanks around an answer
Blanks == {" ", "\t", "\n", "\r"}

\* the line is the word w, in any case, with nothing but blanks around it
AnswerIs(line, w) ==
    \E i \in 1..(Len(line) - Len(w) + 1) :
        /\ MatchesAt(line, i, w)
        /\ \A j \in 1..Len(line) :
               (j < i \/ j > i + Len(w) - 1) => CharAt(line, j) \in Blanks

SaysYes(line) == AnswerIs(line, "yes") \/ AnswerIs(line, "y")
SaysAlways(line) == AnswerIs(line, "always") \/ AnswerIs(line, "a")

\* C11: a request that reaches the prompt returns approved only when the line
\* read, trimmed and lower-cased, is "yes", "y", "always" or "a", and a
\* complete line that says so is approved; every other line, the empty one
\* included, is denied; an approval by "always"/"a" writes true under the
\* (tool, command) key and under the tool's wildcard key and nothing else, an
\* approval by "yes"/"y" writes true under the (tool, command) key only.
C11_PromptFailClosed ==
    (pLast.requested /\ pLast.prompted) =>
        LET line == pLast.read.line
            key == CacheKey(pLast.tool, pLast.command)
        IN  /\ pLast.approved => (SaysYes(line) \/ SaysAlways(line))
            /\ (pLast.read.err = NoErr /\ (SaysYes(line) \/ SaysAlways(line)))
                   => pLast.approved
            /\ (pLast.approved /\ SaysAlways(line)) =>
                   userApproved = Put(Put(pLast.mapBefore, WildcardKey(pLast.tool), TRUE),
                                      key, TRUE)
            /\ (pLast.approved /\ SaysYes(line)) =>
                   userApproved = Put(pLast.mapBefore, key, TRUE)
            /\ ~pLast.approved =>
                   \A k \in DOMAIN userApproved \ DOMAIN pLast.mapBefore :
                       ~userApproved[k]

\* C11 witness: the prompt read " Always " for (nmap, sudo nmap -sS) on a
\* fresh key; the call returned approved and both keys now hold true
C11_Witness ==
    /\ pLast.fn = "RequestRootPermission" /\ pLast.prompted /\ pLast.approved
    /\ pLast.tool = "nmap" /\ pLast.command = "sudo nmap -sS"
    /\ pLast.read.line = " Always \n"
    /\ "nmap:*" \notin DOMAIN pLast.mapBefore
    /\ "nmap:*" \in DOMAIN userApproved /\ userApproved["nmap:*"]
    /\ userApproved["nmap:sudo nmap -sS"]

\* sudo as the manager judges it before the call: the remembered result of
\* the probe when it has run, the environment otherwise
SudoUnavailable ==
    IF pLast.testedBefore THEN ~pLast.availBefore ELSE pLast.envAt # "ok"

\* C12: a request whose key has no recorded decision, made while sudo is
\* unavailable, returns false with the error "sudo not available" without
\* reading a line (and records nothing); the probe runs at most once per
\* manager, and once it has run every later check returns its result
\* without probing again.
C12_NoSudoFailsFast ==
    /\ pProbes <= 1
    /\ pLast.testedBefore => ~pLast.probed
    /\ (pLast.fn = "CheckSudoAvailable" /\ pLast.testedBefore)
           => (pLast.approved = pLast.availBefore)
    /\ (/\ pLast.requested
        /\ CacheKey(pLast.tool, pLast.command) \notin DOMAIN pLast.mapBefore
        /\ SudoUnavailable)
           => /\ ~pLast.approved
              /\ pLast.err.msg = "sudo not available"
              /\ ~pLast.prompted /\ pLast.read = NoRead
              /\ userApproved = pLast.mapBefore

\* C12 witness: the probe found no sudo; sudo was installed afterwards; a
\* request for an unrecorded key still fails with "sudo not available",
\* unprompted, and the probe has run once
C12_Witness ==
    /\ pLast.fn = "RequestRootPermission"
    /\ pLast.testedBefore /\ ~pLast.availBefore /\ pLast.envAt = "ok"
    /\ pLast.err.msg = "sudo not available" /\ ~pLast.approved /\ ~pLast.prompted
    /\ pProbes = 1

\* C13 as stated: once a key holds a decision, no call of the manager changes
\* the value recorded under that key.
C13_DecisionsTerminal ==
    [][\A k \in DOMAIN userApproved :
           k \in DOMAIN userApproved' /\ userApproved'[k] = userApproved[k]]_vars

(***************************************************************************)
(* C14, C15, C16: the response extraction                                  *)
(***************************************************************************)
\* the positions of the newlines of a text, and its lines counted from 1
Newlines(text) == {i \in 1..Len(text) : CharAt(text, i) = "\n"}
NumLines(text) == Cardinality(Newlines(text)) + 1
NewlineNo(text, k) ==
    IF k = 0 THEN 0
    ELSE IF k > Cardinality(Newlines(text)) THEN Len(text) + 1
    ELSE CHOOSE i \in Newlines(text) :
             Cardinality({x \in Newlines(text) : x < i}) = k - 1
NthLine(text, k) == SubSeq(text, NewlineNo(text, k - 1) + 1, NewlineNo(text, k) - 1)

\* the line mentions the word w, in any case
Mentions(line, w) == \E i \in 1..(Len(line) - Len(w) + 1) : MatchesAt(line, i, w)

\* the lines of a text that mention "risk score"
ScoreLines(text) == {k \in 1..NumLines(text) : Mentions(NthLine(text, k), "risk score")}

RECURSIVE Decimal(_)
\* the number a string of digits denotes
Decimal(s) ==
    IF s = "" THEN 0
    ELSE Decimal(SubSeq(s, 1, Len(s) - 1)) * 10 + DigitVal[CharAt(s, Len(s))]

DigitAt(line) == {i \in 1..Len(line) : CharAt(line, i) \in DigitSet}

\* the numbers written in a line: the values of its substrings of digits
NumbersIn(line) ==
    UNION {{Decimal(SubSeq(line, a, b)) :
               b \in {x \in DigitAt(line) : \A y \in a..x : y \in DigitAt(line)}} :
           a \in DigitAt(line)}

\* the first contiguous run of digits of a line that has a digit
FirstRun(line) ==
    LET a == CHOOSE i \in DigitAt(line) : \A j \in DigitAt(line) : i <= j
        b == CHOOSE x \in DigitAt(line) :
                 /\ \A y \in a..x : y \in DigitAt(line)
                 /\ x + 1 \notin DigitAt(line)
    IN  SubSeq(line, a, b)

RuleScore(text) ==
    LET valid == {k \in ScoreLines(text) :
                     /\ DigitAt(NthLine(text, k)) # {}
                     /\ Decimal(FirstRun(NthLine(text, k))) \in 0..100}
    IN  IF valid = {} THEN 50
        ELSE Decimal(FirstRun(NthLine(text, CHOOSE k \in valid : \A j \in valid : k <= j)))

\* C15 as stated: the score is the first contiguous run of digits of the
\* first "risk score" line, parsed as a whole, when it is in [0,100]; a line
\* whose run is out of range yields nothing and the next matching line is
\* tried; with no valid score the result is 50.
C15_RiskScoreRule == (eDone /\ eOut.ok) => eOut.RiskScore = RuleScore(eText)

\* C16: extraction returns for every text, without an index out of range;
\* the empty text gives the empty summary, the score 50 and empty lists, and
\* a text that mentions neither "critical" nor "recommendation" gives empty
\* lists.
C16_ExtractionTotal ==
    eDone =>
        /\ eOut.ok
        /\ eText = "" =>
               /\ eOut.Summary = "" /\ eOut.RiskScore = 50
               /\ eOut.CriticalIssues = <<>> /\ eOut.Recommendations = <<>>
        /\ ScoreLines(eText) = {} => eOut.RiskScore = 50
        /\ (\A k \in 1..NumLines(eText) :
                /\ ~Mentions(NthLine(eText, k), "critical")
                /\ ~Mentions(NthLine(eText, k), "recommendation"))
               => (eOut.CriticalIssues = <<>> /\ eOut.Recommendations = <<>>)

\* C16 witness: the last line of the text is the only one mentioning
\* "summary"; the extractors returned, the summary being the first line
C16_Witness ==
    /\ eDone /\ eOut.ok
    /\ eText = " All good \nSummary"
    /\ eOut.Summary = " All good "
    /\ eOut.RiskScore = 50 /\ eOut.CriticalIssues = <<>>

(***************************************************************************)
(* C17: the UsageTracker                                                   *)
(***************************************************************************)
RECURSIVE SeqSum(_)
SeqSum(q) == IF q = <<>> THEN 0 ELSE Head(q) + SeqSum(Tail(q))

\* the static price table: input and output price of a model, 0 when unknown
PriceOf(model) ==
    CASE model = "claude-opus-4.6" -> <<1500, 7500>>
      [] model \in {"claude-sonnet-4.5", "claude-sonnet-4.5-20250929"} -> <<300, 1500>>
      [] model = "claude-haiku-4.5" -> <<80, 400>>
      [] OTHER -> <<0, 0>>

RecordCost(u) == u.InputTokens * PriceOf(u.Model)[1] + u.OutputTokens * PriceOf(u.Model)[2]

\* C17: a summary taken after the records R1..Rn were inserted counts n
\* operations and the Ri with Success true, sums their input tokens, output
\* tokens and durations, and its TotalCost is the sum of the costs of the
\* records by the price table, an unknown model costing 0; a second summary
\* taken with no insertion in between equals the first.
C17_SummaryIsTheSum ==
    /\ uTaken =>
           LET n == Len(usages)
               s == uSummary.s
           IN  /\ s.TotalOperations = n
               /\ s.SuccessfulOperations = Cardinality({i \in 1..n : usages[i].Success})
               /\ s.TotalInputTokens = SeqSum([i \in 1..n |-> usages[i].InputTokens])
               /\ s.TotalOutputTokens = SeqSum([i \in 1..n |-> usages[i].OutputTokens])
               /\ s.TotalDuration = SeqSum([i \in 1..n |-> usages[i].Duration])
               /\ s.TotalCost = SeqSum([i \in 1..n |-> RecordCost(usages[i])])
    /\ uPrev.taken => (uTaken /\ uPrev = uSummary)

\* C17 witness: three records, one failed and one of an unknown model, have
\* been inserted and two summaries taken after the last insertion
C17_Witness ==
    /\ uTaken /\ uPrev.taken /\ Len(usages) = 3
    /\ usages[1].Model = "claude-opus-4.6" /\ usages[2].Model = "gpt-4"
    /\ ~usages[3].Success
    /\ uSummary.s.TotalOperations = 3 /\ uSummary.s.SuccessfulOperations = 2
    /\ uSummary.s.TotalCost = 400 * 1500 + 1200 * 7500

(***************************************************************************)
(* C18, C19, C20: the analysis profiles                                    *)
(***************************************************************************)
\* the agent types called so far, in order
Called ==
    LET c == SelectSeq(aLog, LAMBDA e : e.ev = "call")
    IN  [i \in 1..Len(c) |-> c[i].agent]

IsPrefix(p, q) == Len(p) <= Len(q) /\ p = SubSeq(q, 1, Len(p))

\* what the standard analysis returns when its one agent call returned out
StandardResult(scan, out) ==
    IF out.err # NoErr
    THEN [result |-> NilAnalysis, err |-> Errorf("analysis failed: ", out.err)]
    ELSE [result |-> AnalysisOf(out.text, scan.ID), err |-> NoErr]

\* C18: "quick" calls only the quick-scan agent, "deep" calls the
\* reconnaissance, vulnerability and exploitation agents in that order, and
\* "standard" and every other profile string, the empty one included, call
\* the vulnerability agent once with the analysis prompt of the scan and
\* return what that one call gives: the same for "standard" and the rest.
C18_ProfileLookup ==
    /\ aProfile = "quick" => IsPrefix(Called, <<"quick-scan">>)
    /\ aProfile = "deep" =>
           IsPrefix(Called, <<"reconnaissance", "vulnerability", "exploitation">>)
    /\ aProfile \notin {"quick", "deep"} => IsPrefix(Called, <<"vulnerability">>)
    /\ aStage = "done" =>
           /\ Called # <<>>
           /\ aProfile \notin {"quick", "deep"} =>
                  /\ Len(aLog) = 2
                  /\ aLog[1].prompt = buildAnalysisPrompt(aScan)
                  /\ aRet = StandardResult(aScan, aLog[2].out)
           /\ aProfile = "quick" =>
                  (Len(aLog) = 2 /\ aRet = StandardResult(aScan, aLog[2].out))

\* C18 witness: the empty profile has run to its end: one call, of the
\* vulnerability agent, and an analysis returned
C18_Witness ==
    /\ aStage = "done" /\ aProfile = ""
    /\ Called = <<"vulnerability">>
    /\ aRet.err = NoErr /\ aRet.result.kind = "analysis"
    /\ aRet.result.fields.RiskScore = 40

\* the calls and returns of the deep profile
DeepOrder ==
    << <<"call", "reconnaissance">>, <<"return", "reconnaissance">>,
       <<"call", "vulnerability">>, <<"return", "vulnerability">>,
       <<"call", "exploitation">>, <<"return", "exploitation">> >>

\* C19: in the deep profile the agents are called in the order
\* reconnaissance, vulnerability, exploitation, each after the previous one
\* returned; when stage 1 or stage 2 returns an error the analysis is over:
\* it returns that error (wrapped) and no analysis, nothing is parsed, and
\* no further agent is called.
C19_DeepStagesInOrder ==
    aProfile = "deep" =>
        /\ Len(aLog) <= Len(DeepOrder)
        /\ \A i \in 1..Len(aLog) : <<aLog[i].ev, aLog[i].agent>> = DeepOrder[i]
        /\ aRunning <=> (Len(aLog) % 2 = 1)
        /\ \A i \in 1..Len(aLog) :
               (aLog[i].ev = "return" /\ i <= 4 /\ aLog[i].out.err # NoErr) =>
                   /\ Len(aLog) = i
                   /\ aStage = "done"
                   /\ aRet.result = NilAnalysis
                   /\ aRet.err # NoErr /\ aLog[i].out.err.id \in ChainIds(aRet.err)
                   /\ aParsed = <<>>

\* C19 witness: stage 1 succeeded and stage 2 failed; the analysis is over
\* with the error of stage 2 and stage 3 was not called
C19_Witness ==
    /\ aProfile = "deep" /\ aStage = "done"
    /\ Called = <<"reconnaissance", "vulnerability">>
    /\ aLog[2].out.err = NoErr /\ aLog[4].out.err # NoErr
    /\ aRet.result = NilAnalysis
    /\ aRet.err.msg =
           "vulnerability stage failed: analysis failed: context deadline exceeded"

\* C20: in the deep profile, when stages 1 and 2 returned texts and stage 3
\* an error, the analysis returns a nil error and an analysis of the text
\* made of the two stage outputs, unchanged, under their headings, followed
\* by the placeholder "Exploitation analysis not available."; a warning is
\* passed to the progress callback when there is one.
C20_ExploitFailureTolerated ==
    (aProfile = "deep" /\ aStage = "done" /\ Len(aLog) = 6 /\ aLog[6].out.err # NoErr) =>
        /\ aRet.err = NoErr /\ aRet.result.kind = "analysis"
        /\ aParsed = << "# Reconnaissance Findings\n" \o aLog[2].out.text
                        \o "\n\n# Vulnerability Analysis\n" \o aLog[4].out.text
                        \o "\n\n# Exploitation Assessment\n"
                        \o "Exploitation analysis not available." >>
        /\ aRet.result.text = aParsed[1]
        /\ aHasProgress =>
               \E i \in 1..Len(aMsgs) :
                   Mentions(aMsgs[i], "Exploitation analysis unavailable")
        /\ ~aHasProgress => aMsgs = <<>>

\* C20 witness: stages 1 and 2 returned a text, stage 3 failed, a progress
\* callback is set, and the analysis returned without error
C20_Witness ==
    /\ aProfile = "deep" /\ aStage = "done" /\ aHasProgress
    /\ Len(aLog) = 6 /\ aLog[6].out.err # NoErr
    /\ aLog[2].out.text # "" /\ aLog[4].out.text # ""
    /\ aRet.err = NoErr /\ aRet.result.kind = "analysis"

(***************************************************************************)
(* C21, C22: the usage records and the target of an Analyze request        *)
(***************************************************************************)
\* the returns of agent.client.Run so far, in order
Returned == SelectSeq(aLog, LAMBDA e : e.ev = "return")

\* the agent-manager half of C21: one record per returned AnalyzeWithAgent
\* call, in order, with the Success flag of that call
OneRecordPerAgentCall ==
    /\ Len(usages) = Len(Returned)
    /\ \A i \in 1..Len(usages) : usages[i].Success = (Returned[i].out.err = NoErr)

\* C21: every Analyze invocation that has reached a terminal state, success
\* or failure after the last attempt, has added exactly one record to the
\* usage tracker, and the Success flag of that record tells whether the
\* invocation succeeded: the retried analysis of AnalyzeScanWithRetry as
\* well as each AnalyzeWithAgent call of the agent manager.
C21_OneRecordPerAnalyze ==
    /\ (op = "Analyze" /\ pc = "done"
          /\ (ret.err = NoErr \/ calls = maxRetryAttempts)) =>
           /\ Len(usages) = 1
           /\ usages[1].Success = (ret.err = NoErr)
    /\ OneRecordPerAgentCall

\* C22: an analysis request for a scan whose target is empty fails with an
\* error and no analysis, without any call of the model and so without a
\* retry.
C22_EmptyTargetIsFatal ==
    (aStage # "idle" /\ aScan.Target = "") =>
        /\ aLog = <<>>
        /\ ~aRunning
        /\ aStage = "done"
        /\ aRet.result = NilAnalysis
        /\ aRet.err # NoErr

(***************************************************************************)
(* C23: the critical issues                                                *)
(***************************************************************************)
\* a line without its leading and trailing white space
Trimmed(line) ==
    LET black == {i \in 1..Len(line) : CharAt(line, i) \notin WhiteSpace}
    IN  IF black = {} THEN ""
        ELSE SubSeq(line, CHOOSE i \in black : \A j \in black : i <= j,
                          CHOOSE i \in black : \A j \in black : j <= i)

\* the line is a bullet: its first non-blank character is "-" or "*"
IsBullet(line) == Trimmed(line) # "" /\ CharAt(Trimmed(line), 1) \in {"-", "*"}

\* the first line mentioning "critical" (0 when there is none), and the
\* first line after it mentioning "recommendation" (one past the last line
\* when there is none)
CriticalLine(text) ==
    LET c == {k \in 1..NumLines(text) : Mentions(NthLine(text, k), "critical")}
    IN  IF c = {} THEN 0 ELSE CHOOSE k \in c : \A j \in c : k <= j

StopLine(text) ==
    LET r == {k \in 1..NumLines(text) :
                 k > CriticalLine(text) /\ Mentions(NthLine(text, k), "recommendation")}
    IN  IF r = {} THEN NumLines(text) + 1 ELSE CHOOSE k \in r : \A j \in r : k <= j

RECURSIVE BulletsBetween(_, _, _)
\* the trimmed bullet lines among the lines k .. last - 1, in order
BulletsBetween(text, k, last) ==
    IF k >= last THEN <<>>
    ELSE (IF IsBullet(NthLine(text, k)) THEN <<Trimmed(NthLine(text, k))>> ELSE <<>>)
             \o BulletsBetween(text, k + 1, last)

\* the list the stated rule gives
RuleIssues(text) ==
    IF CriticalLine(text) = 0 THEN <<>>
    ELSE BulletsBetween(text, CriticalLine(text) + 1, StopLine(text))

\* C23: for every text the critical issues are exactly, in order, the
\* trimmed bullet lines ("-" or "*") that lie after the first line
\* mentioning "critical" and before the first following line mentioning
\* "recommendation"; that line and the lines after it give nothing.
C23_CriticalIssuesRule ==
    (eDone /\ eOut.ok) => eOut.CriticalIssues = RuleIssues(eText)

(***************************************************************************)
(* C24: the tracker under concurrent callers                               *)
(***************************************************************************)
\* C24: whatever the interleaving of RecordUsage and GetSummary calls, no
\* insertion is lost (the tracker holds the record of every returned
\* RecordUsage at its own index, and exactly as many records as calls have
\* returned or have stored theirs), no GetSummary sees a record that is
\* not yet complete, and every summary is the aggregate of a prefix of
\* the insertion order that has every record whose RecordUsage returned
\* before the GetSummary began.
C24_LockSerializes ==
    /\ \A r \in tReturned : r.idx \in DOMAIN usages /\ usages[r.idx] = r.stats
    /\ Len(usages) = Cardinality(tReturned)
                         + Cardinality({g \in Goroutines : tPc[g] \in {"fill", "Unlock"}})
    /\ tOut.taken =>
           /\ ~tOut.torn
           /\ \E n \in 0..Len(usages) :
                  /\ \A i \in 1..n : usages[i] \in TrackerInputs
                  /\ tOut.s = SummaryOf(usages, n)
                  /\ \A i \in tOut.began : i <= n

\* C24 witness: one goroutine is in the middle of its append, holding the
\* lock, a second waits for the read lock, one insertion has returned, and
\* the last summary, of a GetSummary that began before that return, covers
\* it
C24_Witness ==
    \E w, g \in Goroutines :
        /\ tPc[w] = "fill" /\ mu.w = w
        /\ tPc[g] = "RLock"
        /\ Cardinality(tReturned) = 1
        /\ tOut.taken /\ tOut.s.TotalOperations = 1 /\ tOut.began = {}

(***************************************************************************)
(* C25, C26, C27, C28: running under sudo and the approval map             *)
(***************************************************************************)
RECURSIVE Spaced(_)
\* the words of an argv with one space between them
Spaced(argv) ==
    IF argv = <<>> THEN ""
    ELSE IF Len(argv) = 1 THEN argv[1]
    ELSE argv[1] \o " " \o Spaced(Tail(argv))

\* the processes of the last call started under sudo, and the others
UnderSudo == SelectSeq(pLast.ran, LAMBDA e : e.cmd[1] = "sudo")
Plain == SelectSeq(pLast.ran, LAMBDA e : e.cmd[1] # "sudo")

\* C25: RunWithSudo starts the command under sudo only when the request
\* for exactly its command line returned (true, nil); on a denial it
\* returns "user denied permission", on a failed request the error of the
\* request, and in both cases it starts no process.
C25_SudoOnlyAfterApproval ==
    pLast.fn = "RunWithSudo" =>
        /\ pLast.requested
        /\ pLast.ran # <<>> <=> (pLast.approved /\ pLast.err = NoErr)
        /\ pLast.ran # <<>> =>
               /\ Len(pLast.ran) = 1
               /\ pLast.ran[1].cmd[1] = "sudo" /\ pLast.ran[1].cmd[2] = pLast.tool
               /\ Spaced(pLast.ran[1].cmd) = pLast.command
        /\ (pLast.err = NoErr /\ ~pLast.approved) =>
               (pLast.out.msg = "user denied permission" /\ pLast.ran = <<>>)
        /\ pLast.err # NoErr => (pLast.out = pLast.err /\ pLast.ran = <<>>)

\* C25 witness: the user answered "no" at the prompt of a RunWithSudo call;
\* it returned the denial and started nothing
C25_Witness ==
    /\ pLast.fn = "RunWithSudo" /\ pLast.prompted
    /\ pLast.read = [line |-> "no\n", err |-> NoErr]
    /\ ~pLast.approved
    /\ pLast.out.msg = "user denied permission" /\ pLast.ran = <<>>

\* C26: RunWithFallback reports a privileged result only when sudo was
\* available, the request was approved without error and the command under
\* sudo exited without error; in every other case the fallback command is
\* run exactly once, last, and the result is not privileged; after a
\* denial, a failed request or with sudo unavailable nothing is run under
\* sudo.
C26_FallbackRule ==
    pLast.fn = "RunWithFallback" =>
        LET allowed == /\ ~SudoUnavailable /\ pLast.requested
                       /\ pLast.approved /\ pLast.err = NoErr
        IN  /\ pLast.privileged <=>
                   (allowed /\ Len(UnderSudo) = 1 /\ UnderSudo[1].exit = NoErr)
            /\ pLast.privileged => (Plain = <<>> /\ pLast.out = NoErr)
            /\ ~pLast.privileged =>
                   /\ Len(Plain) = 1
                   /\ pLast.ran[Len(pLast.ran)] = Plain[1]
                   /\ Plain[1].cmd[1] = pLast.tool
                   /\ Tail(Plain[1].cmd) \in FallbackArgs
            /\ Len(UnderSudo) = (IF allowed THEN 1 ELSE 0)
            /\ UnderSudo # <<>> => Spaced(UnderSudo[1].cmd) = pLast.command

\* C26 witness: the request was approved and the command under sudo
\* failed; the fallback ran once after it and the result is not privileged
C26_Witness ==
    /\ pLast.fn = "RunWithFallback" /\ pLast.approved /\ pLast.err = NoErr
    /\ Len(pLast.ran) = 2
    /\ pLast.ran[1].cmd = <<"sudo", "nmap", "-sS">> /\ pLast.ran[1].exit # NoErr
    /\ pLast.ran[2].cmd = <<"nmap", "-sT">>
    /\ ~pLast.privileged

\* C27: a request for a pair (tool, command) that was never asked about,
\* with no "always" answer given for its tool, reaches the prompt or the
\* sudo-unavailable error: the decision recorded for another pair is never
\* returned for it.
C27_KeyedByPair ==
    (pLast.requested /\ pLast.recordedBefore = "unasked" /\ ~pLast.alwaysBefore) =>
        (pLast.prompted \/ pLast.err.msg = "sudo not available")

\* C28: a RequestRootPermission call that ends with an error, sudo being
\* unavailable or the read of the line failing, leaves the approval map as
\* it was, without a key for the request: the same request made again is
\* not answered from the map.
C28_ErrorRecordsNothing ==
    (pLast.requested /\ pLast.err # NoErr) =>
        /\ userApproved = pLast.mapBefore
        /\ (pLast.tool \o ":" \o pLast.command) \notin DOMAIN userApproved
        /\ <<pLast.tool, pLast.command>> \in DOMAIN pRecorded =>
               pLast.recordedBefore # "unasked"

\* C28 witness: the input ended in the middle of the line "yes" at the
\* prompt of a request, after another request had been denied: the call
\* returned the read error and the map still holds the one denial
C28_Witness ==
    /\ pLast.fn = "RequestRootPermission" /\ pLast.prompted
    /\ pLast.read = [line |-> "yes", err |-> ExtErr("EOF")]
    /\ pLast.err = ExtErr("EOF")
    /\ Cardinality(DOMAIN userApproved) = 1
    /\ \A k \in DOMAIN userApproved : ~userApproved[k]

(***************************************************************************)
(* C29: the modules of a scan                                              *)
(***************************************************************************)
\* the catalogue of a profile, by the names of its modules
Catalogue(profile) ==
    IF profile = "quick" THEN <<"Basic Security">>
    ELSE IF profile = "standard" THEN <<"Basic Security", "Security Headers">>
    ELSE IF profile = "deep"
    THEN <<"Basic Security", "Security Headers", "Subdomain Discovery", "Port Scanning">>
    ELSE <<>>

RECURSIVE FindingsOf(_, _)
\* the findings of the modules of a list, one after the other
FindingsOf(modules, target) ==
    IF modules = <<>> THEN <<>>
    ELSE (IF ModuleRun(Head(modules), target).err = NoErr
          THEN ModuleRun(Head(modules), target).findings ELSE <<>>)
             \o FindingsOf(Tail(modules), target)

\* C29: every call of Run, a second call on the same Scanner included,
\* runs each module of the catalogue of the configured profile exactly
\* once, in catalogue order, and ends with status "completed" and the
\* findings of the modules that returned no error, in that order.
C29_EachModuleOnce ==
    /\ sPc = "loop" => IsPrefix(sRan, Catalogue(sConfig.Profile))
    /\ sPc = "returned" =>
           /\ sRan = Catalogue(sConfig.Profile)
           /\ sResult.Status = "completed"
           /\ sResult.Findings = FindingsOf(Catalogue(sConfig.Profile), sConfig.Target)

\* the first Run alone does what C29 says
FirstRunOnce == sRuns <= 1 => C29_EachModuleOnce

(***************************************************************************)
(* C30: the progress goroutine                                             *)
(***************************************************************************)
\* C30: the progress goroutine of an AnalyzeWithAgent call makes no
\* progress call once that AnalyzeWithAgent has returned, whether the model
\* call succeeded or failed and however the ticker and the done signal
\* interleave.
C30_NoProgressAfterReturn == aLate = 0

====
